---- MODULE Spec2Model ----
(***************************************************************************)
(* Prospect extraction and deduplication engine of backend.py.             *)
(*                                                                         *)
(* A Python str is a sequence of one-character strings.  Python's None is  *)
(* the one-element sequence PyNone, whose element is no character, so it   *)
(* differs from every str, the empty str included.  Regular expressions    *)
(* are syntax trees interpreted by a backtracking matcher that returns the *)
(* possible ends of a match in the order Python's re tries them.           *)
(***************************************************************************)
EXTENDS Integers, Sequences, FiniteSets, TLC

(***************************************************************************)
(* Characters and str helpers                                              *)
(***************************************************************************)
UpperSeq == <<"A","B","C","D","E","F","G","H","I","J","K","L","M",
              "N","O","P","Q","R","S","T","U","V","W","X","Y","Z">>
LowerSeq == <<"a","b","c","d","e","f","g","h","i","j","k","l","m",
              "n","o","p","q","r","s","t","u","v","w","x","y","z">>
Upper == {UpperSeq[i] : i \in 1..26}
Lower == {LowerSeq[i] : i \in 1..26}
Digit == {"0","1","2","3","4","5","6","7","8","9"}
Space == {" ", "\n", "\t", "\r", "\f"}
Alpha == Upper \cup Lower
Word  == Alpha \cup Digit \cup {"_"}

ToLowerMap == [c \in Upper |-> LowerSeq[CHOOSE i \in 1..26 : UpperSeq[i] = c]]

\* str.lower()
LowerChar(c) == IF c \in Upper THEN ToLowerMap[c] ELSE c
StrLower(s) == [i \in 1..Len(s) |-> LowerChar(s[i])]

\* s[a:b] with 0 <= a, b already clamped by the caller where Python clamps
Slice(s, a, b) == IF b <= a THEN <<>> ELSE SubSeq(s, a + 1, IF b > Len(s) THEN Len(s) ELSE b)

Min(a, b) == IF a < b THEN a ELSE b
Max(a, b) == IF a > b THEN a ELSE b

\* F(v) with v evaluated once: a local variable assignment followed by its uses
Bind(v, F(_)) == CHOOSE r \in {F(x) : x \in {v}} : TRUE

RECURSIVE ForRange(_, _, _, _)
\* acc after  for k in lo..hi: acc = Step(acc, k)
ForRange(Step(_, _), lo, hi, acc) ==
  IF lo < hi
  THEN Bind(ForRange(Step, lo, (lo + hi) \div 2, acc),
            LAMBDA half : ForRange(Step, (lo + hi) \div 2 + 1, hi, half))
  ELSE IF lo = hi THEN Step(acc, lo) ELSE acc

\* s.startswith(p) at offset i (0-based)
StartsAt(s, p, i) == /\ i + Len(p) <= Len(s)
                     /\ \A k \in 1..Len(p) : s[i + k] = p[k]
StartsWith(s, p) == StartsAt(s, p, 0)

\* p in s
Contains(s, p) == \E i \in 0..(Len(s) - Len(p)) : StartsAt(s, p, i)

\* s.find(p): the lowest index, -1 when absent
Find(s, p) == IF Contains(s, p)
              THEN CHOOSE i \in 0..(Len(s) - Len(p)) :
                     /\ StartsAt(s, p, i)
                     /\ \A j \in 0..(i - 1) : ~StartsAt(s, p, j)
              ELSE -1

MinOf(S) == CHOOSE x \in S : \A y \in S : x <= y
MaxOf(S) == CHOOSE x \in S : \A y \in S : x >= y

\* the elements of a set of numbers, lowest first
Ascending(S) == [k \in 1..Cardinality(S) |-> CHOOSE x \in S : Cardinality({y \in S : y < x}) = k - 1]

\* s.strip(): s from its first to its last character outside Space
LStrip(s) == SubSeq(s, MinOf({i \in 1..Len(s) : s[i] \notin Space} \cup {Len(s) + 1}), Len(s))
RStrip(s) == SubSeq(s, 1, MaxOf({i \in 1..Len(s) : s[i] \notin Space} \cup {0}))
Strip(s) == RStrip(LStrip(s))

\* the pieces of s between the separator positions cuts (1-based, ascending)
CutAt(s, cuts) ==
  [k \in 1..(Len(cuts) + 1) |->
     Slice(s, IF k = 1 THEN 0 ELSE cuts[k - 1], IF k > Len(cuts) THEN Len(s) ELSE cuts[k] - 1)]

\* s.split(sep) for a one-character separator
SplitOn(s, c) == CutAt(s, Ascending({i \in 1..Len(s) : s[i] = c}))

\* len(s.split()): the number of whitespace-separated tokens
TokenCount(s) ==
  Cardinality({i \in 1..Len(s) : s[i] \notin Space /\ (i = 1 \/ s[i - 1] \in Space)})

(***************************************************************************)
(* Regular expressions (Python re): syntax trees and a backtracking matcher*)
(***************************************************************************)
Cls(S)  == [t |-> "cls", s |-> S]           \* [...]
NCls(S) == [t |-> "ncls", s |-> S]          \* [^...]
Cat(rs) == [t |-> "cat", rs |-> rs]         \* r1 r2 ...
Alt(rs) == [t |-> "alt", rs |-> rs]         \* r1 | r2 | ...
Rep(r, lo, hi) == [t |-> "rep", r |-> r, lo |-> lo, hi |-> hi, greedy |-> TRUE]   \* r{lo,hi}; hi = -1: no limit
LazyRep(r, lo, hi) == [t |-> "rep", r |-> r, lo |-> lo, hi |-> hi, greedy |-> FALSE]
Star(r) == Rep(r, 0, -1)
Plus(r) == Rep(r, 1, -1)
Opt(r)  == Rep(r, 0, 1)
Bol == [t |-> "bol"]                        \* ^ under re.MULTILINE
Eol == [t |-> "eol"]                        \* $ under re.MULTILINE
Wb  == [t |-> "wb"]                         \* \b
Eos == [t |-> "eos"]                        \* $ without re.MULTILINE
Dot == NCls({"\n"})                         \* . without re.DOTALL
Lit(s) == [t |-> "lit", s |-> s, ci |-> FALSE]    \* a literal string
\* a literal under re.IGNORECASE
LitI(s) == [t |-> "lit", s |-> s, ci |-> TRUE]

IsWordAt(s, i) == i >= 1 /\ i <= Len(s) /\ s[i] \in Word

RECURSIVE Ends(_, _, _)
RECURSIVE CatEnds(_, _, _, _)
RECURSIVE AltEnds(_, _, _, _, _)
RECURSIVE RepEnds(_, _, _, _)
RECURSIVE RepMore(_, _, _, _, _, _)
RECURSIVE FlatEnds(_, _, _, _, _)

\* r{lo,hi} for a one-character r: the run of matching characters after i is
\* measured, and the ends are listed longest first (greedy) or shortest first (lazy)
RunLength(bad, n) == IF bad = {} THEN n ELSE MinOf(bad) - 1
RepList(r, i, most) ==
  IF most < r.lo THEN <<>>
  ELSE IF r.greedy THEN [k \in 1..(most - r.lo + 1) |-> i + most - (k - 1)]
  ELSE [k \in 1..(most - r.lo + 1) |-> i + r.lo + (k - 1)]
RepCap(r, run) == IF r.hi # -1 /\ r.hi < run THEN r.hi ELSE run
ClassRepEnds(r, s, i) ==
  RepList(r, i, RepCap(r, RunLength({k \in 1..(Len(s) - i) :
                IF r.r.t = "cls" THEN s[i + k] \notin r.r.s ELSE s[i + k] \in r.r.s}, Len(s) - i)))

\* Ends(r, s, i): the positions where a match of r starting at position i
\* (0-based, i characters consumed) can end, in the matcher's order of preference
Ends(r, s, i) ==
  CASE r.t = "cls"  -> IF i < Len(s) /\ s[i + 1] \in r.s THEN <<i + 1>> ELSE <<>>
    [] r.t = "ncls" -> IF i < Len(s) /\ s[i + 1] \notin r.s THEN <<i + 1>> ELSE <<>>
    [] r.t = "lit"  -> IF /\ i + Len(r.s) <= Len(s)
                          /\ \A k \in 1..Len(r.s) :
                               IF r.ci THEN LowerChar(s[i + k]) = LowerChar(r.s[k])
                               ELSE s[i + k] = r.s[k]
                       THEN <<i + Len(r.s)>> ELSE <<>>
    [] r.t = "cat"  -> CatEnds(r.rs, 1, s, <<i>>)
    [] r.t = "alt"  -> AltEnds(r.rs, 1, Len(r.rs), s, i)
    [] r.t = "rep"  -> IF r.r.t \in {"cls", "ncls"} THEN ClassRepEnds(r, s, i)
                       ELSE RepEnds(r, s, i, 0)
    [] r.t = "bol"  -> IF i = 0 \/ s[i] = "\n" THEN <<i>> ELSE <<>>
    [] r.t = "eol"  -> IF i = Len(s) \/ s[i + 1] = "\n" THEN <<i>> ELSE <<>>
    [] r.t = "wb"   -> IF IsWordAt(s, i) # IsWordAt(s, i + 1) THEN <<i>> ELSE <<>>
    [] r.t = "eos"  -> IF i = Len(s) \/ (i = Len(s) - 1 /\ s[Len(s)] = "\n") THEN <<i>> ELSE <<>>

\* the ends of r from each start of starts[lo..hi], in order
FlatEnds(r, s, starts, lo, hi) ==
  IF lo > hi THEN <<>>
  ELSE IF lo = hi THEN Ends(r, s, starts[lo])
  ELSE FlatEnds(r, s, starts, lo, (lo + hi) \div 2)
         \o FlatEnds(r, s, starts, (lo + hi) \div 2 + 1, hi)

\* the ends of rs[k..] from the starts, which are the ends of rs[..k-1], in order
CatEnds(rs, k, s, starts) ==
  IF k > Len(rs) \/ starts = <<>> THEN starts
  ELSE CatEnds(rs, k + 1, s, FlatEnds(rs[k], s, starts, 1, Len(starts)))

\* the ends of the alternatives rs[lo..hi] from i, the first alternative's first
AltEnds(rs, lo, hi, s, i) ==
  IF lo > hi THEN <<>>
  ELSE IF lo = hi THEN Ends(rs[lo], s, i)
  ELSE AltEnds(rs, lo, (lo + hi) \div 2, s, i) \o AltEnds(rs, (lo + hi) \div 2 + 1, hi, s, i)

\* the ends of iteration n + 1 onwards from each end es[lo..hi] of iteration n
RepMore(r, s, es, lo, hi, n) ==
  IF lo > hi THEN <<>>
  ELSE IF lo = hi THEN RepEnds(r, s, es[lo], n)
  ELSE RepMore(r, s, es, lo, (lo + hi) \div 2, n) \o RepMore(r, s, es, (lo + hi) \div 2 + 1, hi, n)

\* r{lo,hi} for a compound r: n iterations done, standing at i
RepOrder(r, here, more) == IF r.greedy THEN more \o here ELSE here \o more
RepAll(r, s, es, n) == RepMore(r, s, es, 1, Len(es), n)
RepEnds(r, s, i, n) ==
  RepOrder(r, IF n >= r.lo THEN <<i>> ELSE <<>>,
           RepAll(r, s, IF r.hi # -1 /\ n >= r.hi THEN <<>>
                        ELSE SelectSeq(Ends(r.r, s, i), LAMBDA e : e > i), n + 1))

NoMatch == [ok |-> FALSE, s |-> 0, gs |-> 0, ge |-> 0, e |-> 0]

\* the ends of the whole pattern after each group end of ges: <<>> where post fails
PostEnds(post, s, ges) == [k \in 1..Len(ges) |-> Ends(post, s, ges[k])]

\* the first group end after which post matches, with the end post prefers
FirstGood(i, gs, ges, pes, good) ==
  IF good = {} THEN NoMatch
  ELSE [ok |-> TRUE, s |-> i, gs |-> gs, ge |-> ges[MinOf(good)], e |-> pes[MinOf(good)][1]]

GroupPick(i, gs, ges, pes) == FirstGood(i, gs, ges, pes, {k \in 1..Len(ges) : pes[k] # <<>>})

GroupAt(grp, post, s, i, gs, ges) == GroupPick(i, gs, ges, PostEnds(post, s, ges))

\* the match of each group start of gss, NoMatch where the pattern fails from it
GroupTries(grp, post, s, i, gss) ==
  [j \in 1..Len(gss) |-> GroupAt(grp, post, s, i, gss[j], Ends(grp, s, gss[j]))]

FirstOk(tries, oks) == IF oks = {} THEN NoMatch ELSE tries[MinOf(oks)]
FirstTry(tries) == FirstOk(tries, {j \in 1..Len(tries) : tries[j].ok})

\* pattern.match at position i of the pattern  pre (grp) post
MatchAt(pre, grp, post, s, i) == FirstTry(GroupTries(grp, post, s, i, Ends(pre, s, i)))

\* pattern.match at every position of s: the matches found, leftmost first
Hits(pre, grp, post, s) ==
  SelectSeq([j \in 1..(Len(s) + 1) |-> MatchAt(pre, grp, post, s, j - 1)], LAMBDA m : m.ok)

FirstHit(hits, from) == IF from = {} THEN NoMatch ELSE hits[MinOf(from)]

\* pattern.search(s, i): the leftmost match at or after i
SearchIn(hits, i) == FirstHit(hits, {k \in 1..Len(hits) : hits[k].s >= i})
SearchFrom(pre, grp, post, s, i) == SearchIn(Hits(pre, grp, post, s), i)

RECURSIVE WalkHits(_, _, _, _)
\* the scan standing at p meets the match m: the match is taken when the scan has
\* not passed its start, and the scan resumes at its end (one further on after an
\* empty match)
TakeHit(m, p) ==
  IF m.s >= p THEN [ms |-> <<m>>, p |-> IF m.e > m.s THEN m.e ELSE m.e + 1]
  ELSE [ms |-> <<>>, p |-> p]
JoinHits(l, r) == [ms |-> l.ms \o r.ms, p |-> r.p]
MoreHits(hits, lo, hi, l) == JoinHits(l, WalkHits(hits, lo, hi, l.p))
\* the matches the scan standing at p takes among hits[lo..hi]
WalkHits(hits, lo, hi, p) ==
  IF lo < hi
  THEN MoreHits(hits, (lo + hi) \div 2 + 1, hi, WalkHits(hits, lo, (lo + hi) \div 2, p))
  ELSE IF lo = hi THEN TakeHit(hits[lo], p) ELSE [ms |-> <<>>, p |-> p]
WalkAll(hits, i) == WalkHits(hits, 1, Len(hits), i).ms

\* list(pattern.finditer(s)): the non-overlapping matches, left to right
FindIter(pre, grp, post, s, i) == WalkAll(Hits(pre, grp, post, s), i)

Empty == Cat(<<>>)
Group(s, m) == Slice(s, m.gs, m.ge)
Whole(s, m) == Slice(s, m.s, m.e)


(***************************************************************************)
(* Python values held by a prospect dict                                   *)
(***************************************************************************)
PyNone == <<"None">>                       \* None
PyInt  == <<"int">>                        \* a non-zero number decoded from JSON
IsStr(v) == v # PyNone /\ v # PyInt
Truthy(v) == v # PyNone /\ v # <<>>
\* str(v), as an f-string formats it
PyFormat(v) == IF v = PyNone THEN <<"N","o","n","e">> ELSE IF v = PyInt THEN <<"7">> ELSE v

\* s.split(): the whitespace-separated tokens, each from a token start to the
\* token end that follows it
TokensAt(s, starts, ends) == [k \in 1..Len(starts) |-> SubSeq(s, starts[k], ends[k])]
SplitWs(s) ==
  TokensAt(s, Ascending({i \in 1..Len(s) : s[i] \notin Space /\ (i = 1 \/ s[i - 1] \in Space)}),
              Ascending({i \in 1..Len(s) : s[i] \notin Space /\ (i = Len(s) \/ s[i + 1] \in Space)}))

\* s[m.e:] up to the next match, for the piece after each match of ms and the one before them all
Pieces(s, ms) ==
  [k \in 1..(Len(ms) + 1) |->
     Slice(s, IF k = 1 THEN 0 ELSE ms[k - 1].e, IF k > Len(ms) THEN Len(s) ELSE ms[k].s)]

\* s.split(sep) for a non-empty str separator: the occurrences are taken left to right
SplitStr(s, sep) == Pieces(s, FindIter(Empty, Lit(sep), Empty, s, 0))

\* any(kw.lower() in s.lower() for kw in kws)
AnyKeywordIn(kws, s) ==
  LET sl == StrLower(s) IN \E k \in 1..Len(kws) : Contains(sl, StrLower(kws[k]))

\* re.match(r + '$', s)
ReMatch(r, s) == Ends(Cat(<<r, Eos>>), s, 0) # <<>>

\* re.findall of a pattern without groups: the matched strings
Groups(s, ms) == [k \in 1..Len(ms) |-> Group(s, ms[k])]
FindAll(r, s) == Groups(s, FindIter(Empty, r, Empty, s, 0))

RECURSIVE Joined(_, _, _)
\* ''.join(ss[lo..hi])
Joined(ss, lo, hi) ==
  IF lo > hi THEN <<>>
  ELSE IF lo = hi THEN ss[lo]
  ELSE Joined(ss, lo, (lo + hi) \div 2) \o Joined(ss, (lo + hi) \div 2 + 1, hi)

\* re.sub: s with match ms[k] replaced by reps[k], for every k
Rebuild(s, ms, reps) ==
  Joined([k \in 1..(2 * Len(ms) + 1) |->
            IF k % 2 = 1 THEN Pieces(s, ms)[(k + 1) \div 2] ELSE reps[k \div 2]],
         1, 2 * Len(ms) + 1)

\* re.sub(pre (grp) post, r'\1', s)
SubGroup(pre, grp, post, s) ==
  Bind(FindIter(pre, grp, post, s, 0), LAMBDA ms : Rebuild(s, ms, Groups(s, ms)))

\* re.sub(r, rep, s) for a constant replacement
SubConst(r, rep, s) ==
  Bind(FindIter(Empty, r, Empty, s, 0),
       LAMBDA ms : Rebuild(s, ms, [k \in 1..Len(ms) |-> rep]))

(***************************************************************************)
(* Confidence Scorer                                                       *)
(***************************************************************************)
title_kw ==
  << <<"C","E","O">>, <<"C","T","O">>, <<"V","P">>, <<"D","i","r","e","c","t","o","r">>,
     <<"M","a","n","a","g","e","r">>, <<"H","e","a","d">>, <<"L","e","a","d">>,
     <<"F","o","u","n","d","e","r">>, <<"P","r","e","s","i","d","e","n","t">>, <<"C","F","O">>,
     <<"C","O","O">> >>

\* prospect['title'].lower() on a value that is no str raises AttributeError
ConfidenceRaises(prospect) == Truthy(prospect.title) /\ ~IsStr(prospect.title)

\* calculate_extraction_confidence where the placeholder company takes points away
ConfidencePlaceholderPenalty(prospect) ==
  LET name == prospect.name
      s1 == IF Truthy(name) /\ TokenCount(name) >= 2
            THEN 25 + (IF TokenCount(name) = 2 THEN 5 ELSE 0) ELSE 0
      s2 == IF Truthy(prospect.title)
            THEN 20 + (IF AnyKeywordIn(title_kw, prospect.title) THEN 5 ELSE 0) ELSE 0
      s3 == IF Truthy(prospect.company)
            THEN 0 - 15 + (IF prospect.company # <<"U","n","k","n","o","w","n"," ","C","o","m","p","a","n","y">> THEN 5 ELSE 0) ELSE 0
      s4 == IF Truthy(prospect.email) THEN 15 ELSE 0
      s5 == IF Truthy(prospect.linkedin_url) THEN 10 ELSE 0
  IN Min(100, s1 + s2 + s3 + s4 + s5)

\* calculate_extraction_confidence without the bonus for a name of two tokens
ConfidenceNoNameBonus(prospect) ==
  LET name == prospect.name
      s1 == IF Truthy(name) /\ TokenCount(name) >= 2
            THEN 25 ELSE 0
      s2 == IF Truthy(prospect.title)
            THEN 20 + (IF AnyKeywordIn(title_kw, prospect.title) THEN 5 ELSE 0) ELSE 0
      s3 == IF Truthy(prospect.company)
            THEN 15 + (IF prospect.company # <<"U","n","k","n","o","w","n"," ","C","o","m","p","a","n","y">> THEN 5 ELSE 0) ELSE 0
      s4 == IF Truthy(prospect.email) THEN 15 ELSE 0
      s5 == IF Truthy(prospect.linkedin_url) THEN 10 ELSE 0
  IN Min(100, s1 + s2 + s3 + s4 + s5)

calculate_extraction_confidence(prospect) ==
  LET name == prospect.name
      s1 == IF Truthy(name) /\ TokenCount(name) >= 2
            THEN 25 + (IF TokenCount(name) = 2 THEN 5 ELSE 0) ELSE 0
      s2 == IF Truthy(prospect.title)
            THEN 20 + (IF AnyKeywordIn(title_kw, prospect.title) THEN 5 ELSE 0) ELSE 0
      s3 == IF Truthy(prospect.company)
            THEN 15 + (IF prospect.company # <<"U","n","k","n","o","w","n"," ","C","o","m","p","a","n","y">> THEN 5 ELSE 0) ELSE 0
      s4 == IF Truthy(prospect.email) THEN 15 ELSE 0
      s5 == IF Truthy(prospect.linkedin_url) THEN 10 ELSE 0
  IN Min(100, s1 + s2 + s3 + s4 + s5)

\* the score taken before the email is filled in
WithStaleConfidence(prospect) ==
  [k \in DOMAIN prospect \cup {"confidence"} |->
     IF k = "confidence"
     THEN calculate_extraction_confidence([prospect EXCEPT !.email = PyNone])
     ELSE prospect[k]]

WithConfidence(prospect) ==
  [k \in DOMAIN prospect \cup {"confidence"} |->
     IF k = "confidence" THEN calculate_extraction_confidence(prospect) ELSE prospect[k]]

(***************************************************************************)
(* Signal detectors shared by the strategies                               *)
(***************************************************************************)
AZ == Cls(Upper)
az == Cls(Lower)
WordChar == Cls(Word)
Ws == Cls(Space)
Http == Cat(<<Lit(<<"h","t","t","p">>), Opt(Cls({"s"})), Lit(<<":","/","/">>)>>)
HttpI == Cat(<<LitI(<<"h","t","t","p">>), Opt(Cls({"s", "S"})), Lit(<<":","/","/">>)>>)

\* \b[A-Za-z0-9._%+-]+@[A-Za-z0-9.-]+\.[A-Z|a-z]{2,}\b
email_pattern ==
  Cat(<<Wb, Plus(Cls(Alpha \cup Digit \cup {".", "_", "%", "+", "-"})), Cls({"@"}),
        Plus(Cls(Alpha \cup Digit \cup {".", "-"})), Cls({"."}),
        Rep(Cls(Alpha \cup {"|"}), 2, -1), Wb>>)

role_markers ==
  << <<"n","o","r","e","p","l","y">>, <<"n","o","-","r","e","p","l","y">>,
     <<"s","u","p","p","o","r","t">>, <<"i","n","f","o","@">>, <<"h","e","l","l","o","@">> >>

\* personal_emails[0] if personal_emails else emails[0]; None without emails
PersonalFirst(emails, personal) ==
  IF emails = <<>> THEN PyNone
  ELSE IF personal # <<>> THEN personal[1] ELSE emails[1]
PreferPersonal(emails) ==
  PersonalFirst(emails, SelectSeq(emails, LAMBDA e :
                    ~\E k \in 1..Len(role_markers) : Contains(StrLower(e), role_markers[k])))

\* https?://(?:www\.)?linkedin\.com/in/[\w-]+ and .../company/[\w-]+  (re.IGNORECASE)
linkedin_pattern ==
  Cat(<<HttpI, Opt(LitI(<<"w","w","w",".">>)), LitI(<<"l","i","n","k","e","d","i","n",".","c","o","m","/","i","n","/">>),
        Plus(Cls(Word \cup {"-"}))>>)
linkedin_company_pattern ==
  Cat(<<HttpI, Opt(LitI(<<"w","w","w",".">>)), LitI(<<"l","i","n","k","e","d","i","n",".","c","o","m","/","c","o","m","p","a","n","y","/">>),
        Plus(Cls(Word \cup {"-"}))>>)

FirstLinkedin(matches, company_matches) ==
  IF matches # <<>> THEN matches[1]
  ELSE IF company_matches # <<>> THEN company_matches[1]
  ELSE PyNone
extract_linkedin_from_text(text) ==
  FirstLinkedin(FindAll(linkedin_pattern, text), FindAll(linkedin_company_pattern, text))


(***************************************************************************)
(* Regex Name-Boundary Strategy: _extract_regex                            *)
(***************************************************************************)
MinContentLen == 20
WindowChars == 600
LookbackChars == 100
TitleLines == 8
MaxTitleLen == 150
CompanyRadius == 50
MaxCompanyLen == 100

title_keywords ==
  << <<"C","E","O">>, <<"C","T","O">>, <<"C","F","O">>, <<"C","O","O">>, <<"C","M","O">>, <<"V","P">>,
     <<"D","i","r","e","c","t","o","r">>, <<"M","a","n","a","g","e","r">>,
     <<"H","e","a","d"," ","o","f">>, <<"L","e","a","d">>, <<"E","n","g","i","n","e","e","r">>,
     <<"D","e","v","e","l","o","p","e","r">>, <<"D","e","s","i","g","n","e","r">>,
     <<"F","o","u","n","d","e","r">>, <<"P","r","e","s","i","d","e","n","t">>, <<"C","h","i","e","f">>,
     <<"O","f","f","i","c","e","r">>, <<"E","x","e","c","u","t","i","v","e">>,
     <<"C","o","n","s","u","l","t","a","n","t">>, <<"A","r","c","h","i","t","e","c","t">>,
     <<"P","r","i","n","c","i","p","a","l">>, <<"S","e","n","i","o","r">>, <<"J","u","n","i","o","r">>,
     <<"A","s","s","o","c","i","a","t","e">>, <<"C","o","-","f","o","u","n","d","e","r">>,
     <<"C","o","n","t","r","o","l","l","e","r">>, <<"P","a","r","t","n","e","r">>,
     <<"A","n","a","l","y","s","t">>, <<"C","o","o","r","d","i","n","a","t","o","r">>,
     <<"S","p","e","c","i","a","l","i","s","t">>, <<"R","e","c","r","u","i","t","e","r">>,
     <<"A","d","v","i","s","o","r">>, <<"S","t","r","a","t","e","g","i","s","t">> >>

company_keywords ==
  << <<"I","n","c">>, <<"C","o","r","p">>, <<"L","L","C">>, <<"L","t","d">>,
     <<"C","o","m","p","a","n","y">>, <<"C","o",".">>,
     <<"T","e","c","h","n","o","l","o","g","i","e","s">>, <<"S","o","l","u","t","i","o","n","s">>,
     <<"S","e","r","v","i","c","e","s">> >>

skip_names ==
  { <<"A","b","o","u","t"," ","U","s">>, <<"A","c","i","d">>, <<"A","d","o","b","e">>,
     <<"A","l","l"," ","R","i","g","h","t","s">>, <<"A","n","t","i","t","h","e","s","i","s">>,
     <<"A","p","p","l","e">>, <<"A","u","t","o","n","o","m","o","u","s">>,
     <<"B","a","c","k","s","t","o","r","y">>, <<"B","a","s","e","d">>,
     <<"B","l","o","c","k","c","h","a","i","n">>, <<"B","l","o","c","k","c","h","a","i","n","s">>,
     <<"B","r","a","n","d">>, <<"C","a","r","e","e","r","s">>, <<"C","a","t","a","l","o","g">>,
     <<"C","h","i","e","f"," ","E","x","e","c","u","t","i","v","e">>,
     <<"C","h","i","e","f"," ","F","i","n","a","n","c","i","a","l">>,
     <<"C","h","i","e","f"," ","I","n","f","o","r","m","a","t","i","o","n">>,
     <<"C","h","i","e","f"," ","M","a","r","k","e","t","i","n","g">>,
     <<"C","h","i","e","f"," ","O","p","e","r","a","t","i","n","g">>,
     <<"C","h","i","e","f"," ","P","r","o","d","u","c","t">>,
     <<"C","h","i","e","f"," ","R","e","v","e","n","u","e">>,
     <<"C","h","i","e","f"," ","T","e","c","h","n","o","l","o","g","y">>, <<"C","l","o","u","d">>,
     <<"C","o","m","p","l","i","a","n","c","e">>, <<"C","o","n","t","a","c","t">>, <<"C","o","s","t">>,
     <<"D","a","r","k","n","e","s","s">>, <<"D","a","t","a","b","a","s","e","s">>,
     <<"D","e","t","e","r","m","i","n","i","s","t","i","c">>,
     <<"D","i","s","t","r","i","b","u","t","e","d">>, <<"E","x","p","e","r","i","e","n","c","e">>,
     <<"F","a","c","e","b","o","o","k">>, <<"F","i","n","t","e","c","h">>, <<"F","i","r","e">>,
     <<"F","o","l","l","o","w"," ","U","s">>, <<"F","o","u","n","d","a","t","i","o","n","D","B">>,
     <<"G","e","n","e","r","a","l"," ","M","a","n","a","g","e","r">>,
     <<"G","e","t"," ","S","t","a","r","t","e","d">>, <<"G","l","o","s","s","a","r","y">>,
     <<"G","o","o","g","l","e">>, <<"J","o","i","n"," ","U","s">>, <<"K","o","n","g">>,
     <<"L","e","a","d","e","r","s","h","i","p">>, <<"L","e","a","r","n"," ","M","o","r","e">>,
     <<"L","i","n","k","e","d","I","n">>, <<"L","o","g"," ","I","n">>,
     <<"M","a","n","a","g","i","n","g"," ","D","i","r","e","c","t","o","r">>,
     <<"M","a","n","i","f","e","s","t","o">>, <<"M","o","n","g","o","D","B">>,
     <<"O","u","r"," ","T","e","a","m">>, <<"O","u","t","a","g","e","s">>, <<"P","r","i","m","e","r">>,
     <<"P","r","i","v","a","c","y"," ","P","o","l","i","c","y">>, <<"P","r","o","b","l","e","m","s">>,
     <<"P","r","o","p","e","r","t","y">>, <<"R","e","a","d"," ","M","o","r","e">>,
     <<"R","e","l","i","a","b","i","l","i","t","y">>, <<"R","i","n","g">>,
     <<"S","c","i","e","n","c","e","s">>, <<"S","e","c","u","r","i","t","y">>,
     <<"S","e","e"," ","A","l","l">>, <<"S","e","r","v","i","c","e","s">>,
     <<"S","h","o","w"," ","M","o","r","e">>, <<"S","i","g","n"," ","U","p">>,
     <<"S","i","m","u","l","a","t","i","o","n">>, <<"S","t","o","r","i","e","s">>,
     <<"T","e","c","h","n","i","q","u","e","s">>, <<"T","e","r","m","s"," ","O","f">>,
     <<"T","e","s","t">>, <<"T","e","s","t","i","n","g">>,
     <<"V","i","c","e"," ","P","r","e","s","i","d","e","n","t">>, <<"V","i","e","w"," ","A","l","l">>,
     <<"V","i","s","u","a","l">>, <<"W","o","r","k","i","n","g">> }

title_first_words ==
  << <<"C","h","i","e","f">>, <<"V","i","c","e">>, <<"S","e","n","i","o","r">>,
     <<"J","u","n","i","o","r">>, <<"L","e","a","d">>, <<"P","r","i","n","c","i","p","a","l">>,
     <<"D","i","r","e","c","t","o","r">>, <<"M","a","n","a","g","e","r">>, <<"H","e","a","d">>,
     <<"G","e","n","e","r","a","l">>, <<"M","a","n","a","g","i","n","g">> >>

NotRBracket == NCls({"]"})
NotRParen == NCls({")"})

\* [text](linkedin-url) -> text url : the url is what lies between "](" and ")"
LinkedinLinkTail ==
  Cat(<<Lit(<<"]","(">>), Http, Opt(Lit(<<"w","w","w",".">>)),
        Lit(<<"l","i","n","k","e","d","i","n",".","c","o","m","/">>), Plus(NotRParen), Cls({")"})>>)
SubLinkedinLink(s) ==
  Bind(FindIter(Cls({"["}), Star(NotRBracket), LinkedinLinkTail, s, 0),
       LAMBDA ms : Rebuild(s, ms, [k \in 1..Len(ms) |->
                       Group(s, ms[k]) \o <<" ">> \o Slice(s, ms[k].ge + 2, ms[k].e - 1)]))

LinkTail == Cat(<<Lit(<<"]","(">>), Plus(NotRParen), Cls({")"})>>)

\* the seven re.sub calls, in order
Unlink(s) == SubGroup(Cls({"["}), Star(NotRBracket), LinkTail, s)
Unimage(s) == SubGroup(Lit(<<"!","[">>), Star(NotRBracket), LinkTail, s)
Unbold(s) == SubGroup(Lit(<<"*","*">>), Plus(NCls({"*"})), Lit(<<"*","*">>), s)
Unitalic(s) == SubGroup(Cls({"*"}), Plus(NCls({"*"})), Cls({"*"}), s)
Ununderline(s) == SubGroup(Lit(<<"_","_">>), Plus(NCls({"_"})), Lit(<<"_","_">>), s)
Ununderscore(s) == SubGroup(Cls({"_"}), Plus(NCls({"_"})), Cls({"_"}), s)

Normalize(content) ==
  Bind(SubLinkedinLink(content), LAMBDA c1 :
  Bind(Unlink(c1), LAMBDA c2 :
  Bind(Unimage(c2), LAMBDA c3 :
  Bind(Unbold(c3), LAMBDA c4 :
  Bind(Unitalic(c4), LAMBDA c5 :
  Bind(Ununderline(c5), Ununderscore))))))

\* ^(?:Chief\s+\w+\s+Officer)$ and the four others, under re.IGNORECASE
title_only_patterns ==
  << Cat(<<LitI(<<"C","h","i","e","f">>), Plus(Ws), Plus(WordChar), Plus(Ws), LitI(<<"O","f","f","i","c","e","r">>)>>),
     Cat(<<LitI(<<"V","i","c","e">>), Plus(Ws), LitI(<<"P","r","e","s","i","d","e","n","t">>),
           Opt(Cat(<<Plus(Ws), LitI(<<"o","f">>), Plus(Ws), Plus(WordChar)>>))>>),
     Cat(<<LitI(<<"D","i","r","e","c","t","o","r">>), Plus(Ws), LitI(<<"o","f">>), Plus(Ws), Plus(WordChar)>>),
     Cat(<<LitI(<<"H","e","a","d">>), Plus(Ws), LitI(<<"o","f">>), Plus(Ws), Plus(WordChar)>>),
     Cat(<<Alt(<<LitI(<<"S","e","n","i","o","r">>), LitI(<<"J","u","n","i","o","r">>), LitI(<<"L","e","a","d">>), LitI(<<"P","r","i","n","c","i","p","a","l">>)>>), Plus(Ws),
           Alt(<<LitI(<<"E","n","g","i","n","e","e","r">>), LitI(<<"D","e","v","e","l","o","p","e","r">>), LitI(<<"D","e","s","i","g","n","e","r">>), LitI(<<"A","r","c","h","i","t","e","c","t">>), LitI(<<"M","a","n","a","g","e","r">>), LitI(<<"C","o","n","s","u","l","t","a","n","t">>)>>)>>) >>

CapWord == Cat(<<AZ, Plus(az)>>)
\* (?:^|\n)[^\S\n]*([A-Z][a-z]+ [A-Z][a-z]+(?: [A-Z][a-z]+)?)\b  (re.MULTILINE)
name_pattern_pre == Cat(<<Alt(<<Bol, Cls({"\n"})>>), Star(Cls(Space \ {"\n"}))>>)
name_pattern_grp == Cat(<<CapWord, Cls({" "}), CapWord, Opt(Cat(<<Cls({" "}), CapWord>>))>>)
\* ^[A-Z][a-z]+ [A-Z][a-z]+$
TwoCapWords == Cat(<<CapWord, Cls({" "}), CapWord>>)

is_real_person_name(name_str) ==
  \E words \in {SplitWs(name_str)} :
     /\ ~(name_str \in skip_names \/ Len(words) < 2)
     /\ \A w \in 1..Len(words) : words[w] \notin skip_names
     /\ \A tp \in 1..Len(title_only_patterns) : ~ReMatch(title_only_patterns[tp], name_str)
     /\ \A k \in 1..Len(title_first_words) : words[1] # title_first_words[k]

\* the matches of name_pattern that are real person names, in page order
PersonMatches(content) ==
  SelectSeq(FindIter(name_pattern_pre, name_pattern_grp, Wb, content, 0),
            LAMBDA m : is_real_person_name(Strip(Group(content, m))))

\* context_end without the next anchor as a boundary: always pos + 600 or the end
ContextEndUnbounded(content, person_matches, i) ==
  Min(Len(content), person_matches[i].s + WindowChars)

\* [pos, context_end) of anchor i
ContextEnd(content, person_matches, i) ==
  LET pos == person_matches[i].s
  IN IF i + 1 <= Len(person_matches)
     THEN Min(person_matches[i + 1].s, pos + WindowChars)
     ELSE Min(Len(content), pos + WindowChars)

IsTitleLine(line_stripped, name) ==
  /\ line_stripped # <<>>
  /\ line_stripped # name
  /\ ~StartsWith(line_stripped, <<"L","i","n","k","e","d","I","n">>)
  /\ ~StartsWith(line_stripped, <<"h","t","t","p">>)
  /\ AnyKeywordIn(title_keywords, line_stripped)
  /\ Len(line_stripped) < MaxTitleLen
  /\ ~ReMatch(TwoCapWords, line_stripped)

\* the first title line among the first TitleLines lines of after_name
FirstTitleLine(after_lines, hits) ==
  IF hits = {} THEN PyNone ELSE Strip(after_lines[MinOf(hits)])
TitleAmong(after_lines, name) ==
  FirstTitleLine(after_lines, {k \in 1..Min(TitleLines, Len(after_lines)) :
                                 IsTitleLine(Strip(after_lines[k]), name)})
FindTitle(after_name, name) == TitleAmong(SplitOn(after_name, "\n"), name)

\* the keyword as it stands inside the rf-string: "." matches any character
KeywordRe(keyword) ==
  Cat([i \in 1..Len(keyword) |-> IF keyword[i] = "." THEN Dot ELSE Cls({keyword[i]})])

\* context[start:end] around the keyword found at idx
Phrase(context, idx) ==
  Slice(context, Max(0, idx - CompanyRadius), Min(Len(context), idx + CompanyRadius))

\* ([A-Z][A-Za-z0-9\s&]*?keyword) searched in the phrase
CompanyMatch(phrase, keyword) ==
  SearchFrom(Empty, Cat(<<AZ, LazyRep(Cls(Alpha \cup Digit \cup Space \cup {"&"}), 0, -1),
                          KeywordRe(keyword)>>), Empty, phrase, 0)

\* what keyword k assigns to company: None when the keyword is absent or unmatched
CompanyIn(phrase, m) == IF m.ok THEN Strip(Group(phrase, m)) ELSE PyNone
CompanyFor(context, keyword) ==
  IF Contains(context, keyword)
  THEN Bind(Phrase(context, Find(context, keyword)),
            LAMBDA phrase : CompanyIn(phrase, CompanyMatch(phrase, keyword)))
  ELSE PyNone

\* the loop over company_keywords: it breaks at the first company shorter than
\* MaxCompanyLen, and without one it ends holding the last company assigned
LastCompany(found, assigned, short) ==
  IF short # {} THEN found[MinOf(short)]
  ELSE IF assigned # {} THEN found[MaxOf(assigned)]
  ELSE PyNone
CompanyAmong(found) ==
  LastCompany(found, {k \in 1..Len(found) : found[k] # PyNone},
              {k \in 1..Len(found) : found[k] # PyNone /\ Len(found[k]) < MaxCompanyLen})
FindCompany(context) ==
  Bind([k \in 1..Len(company_keywords) |-> CompanyFor(context, company_keywords[k])],
       CompanyAmong)

\* AnchorFields with the email and the profile URL searched in the context, lookback included
AnchorFieldsInContext(name, context, after_name, source_url) ==
  [name |-> name,
   title |-> FindTitle(after_name, name),
   company |-> FindCompany(context),
   email |-> PreferPersonal(FindAll(email_pattern, context)),
   linkedin_url |-> extract_linkedin_from_text(context),
   source |-> source_url]

\* the prospect of anchor i before the title-or-company gate
AnchorFields(name, context, after_name, source_url) ==
  [name |-> name,
   title |-> FindTitle(after_name, name),
   company |-> FindCompany(context),
   email |-> PreferPersonal(FindAll(email_pattern, after_name)),
   linkedin_url |-> extract_linkedin_from_text(after_name),
   source |-> source_url]

AnchorWindow(content, name, pos, context_end, source_url) ==
  AnchorFields(name, Slice(content, Max(0, pos - LookbackChars), context_end),
               Slice(content, pos, context_end), source_url)

AnchorProspect(content, person_matches, i, source_url) ==
  AnchorWindow(content, Strip(Group(content, person_matches[i])), person_matches[i].s,
               ContextEnd(content, person_matches, i), source_url)

\* the gate without its title-or-company test
NameOnlyGate(p) == Truthy(p.name)

\* if (title or company) and name
RegexGate(p) == (Truthy(p.title) \/ Truthy(p.company)) /\ Truthy(p.name)

Scored(kept) == [k \in 1..Len(kept) |-> WithConfidence(kept[k])]

\* the loop over the anchors of the normalized content
AnchorLoop(norm, person_matches, source_url) ==
  Scored(SelectSeq([i \in 1..Len(person_matches) |->
                      AnchorProspect(norm, person_matches, i, source_url)], RegexGate))

RawOf(norm, source_url) ==
  Bind(PersonMatches(norm), LAMBDA person_matches : AnchorLoop(norm, person_matches, source_url))

RawProspects(content, source_url) ==
  Bind(Normalize(content), LAMBDA norm : RawOf(norm, source_url))

(***************************************************************************)
(* Deduplicator, intra-page pass (the loop that ends _extract_regex)       *)
(***************************************************************************)
DedupStart == [final_prospects |-> <<>>, seen_names_lower |-> {}, seen_titles_lower |-> <<>>]

\* seen_titles_lower is a dict: here a sequence of [title, idx] entries with distinct titles
TitleSeen(d, title_lower) == \E k \in 1..Len(d.seen_titles_lower) : d.seen_titles_lower[k].title = title_lower
TitleIdx(d, title_lower) ==
  d.seen_titles_lower[CHOOSE k \in 1..Len(d.seen_titles_lower) : d.seen_titles_lower[k].title = title_lower].idx

LooksLikeTitle(name) == AnyKeywordIn(title_keywords, name)

\* ReplaceKept writing one slot too low: the entry before the colliding one is overwritten
ReplaceKeptBefore(d, existing_idx, p) ==
  [d EXCEPT !.final_prospects[Max(1, existing_idx)] = p,
            !.seen_names_lower = (@ \ {Strip(StrLower(d.final_prospects[existing_idx + 1].name))})
                                   \cup {Strip(StrLower(p.name))}]

\* ReplaceKept without seen_names_lower.discard of the replaced name
ReplaceKeptNoDiscard(d, existing_idx, p) ==
  [d EXCEPT !.final_prospects[existing_idx + 1] = p,
            !.seen_names_lower = @ \cup {Strip(StrLower(p.name))}]

\* what replaces the kept entry on a title collision that the new prospect wins
ReplaceKept(d, existing_idx, p) ==
  LET existing == d.final_prospects[existing_idx + 1]
  IN [d EXCEPT !.final_prospects[existing_idx + 1] = p,
               !.seen_names_lower = (@ \ {Strip(StrLower(existing.name))}) \cup {Strip(StrLower(p.name))}]

\* KeepNew without seen_titles_lower[title_lower] = len(final_prospects)
KeepNewTitleUnseen(d, p) ==
  [final_prospects |-> Append(d.final_prospects, p),
   seen_names_lower |-> d.seen_names_lower \cup {Strip(StrLower(p.name))},
   seen_titles_lower |-> d.seen_titles_lower]

\* KeepNew without seen_names_lower.add(name_lower)
KeepNewNameUnseen(d, p) ==
  LET title_lower == Strip(StrLower(IF Truthy(p.title) THEN p.title ELSE <<>>))
  IN [final_prospects |-> Append(d.final_prospects, p),
      seen_names_lower |-> d.seen_names_lower,
      seen_titles_lower |-> IF title_lower # <<>>
                            THEN Append(d.seen_titles_lower,
                                        [title |-> title_lower, idx |-> Len(d.final_prospects)])
                            ELSE d.seen_titles_lower]

\* what a prospect that collides with nothing does
KeepNew(d, p) ==
  LET name_lower == Strip(StrLower(p.name))
      title_lower == Strip(StrLower(IF Truthy(p.title) THEN p.title ELSE <<>>))
  IN [final_prospects |-> Append(d.final_prospects, p),
      seen_names_lower |-> d.seen_names_lower \cup {name_lower},
      seen_titles_lower |-> IF title_lower # <<>>
                            THEN Append(d.seen_titles_lower,
                                        [title |-> title_lower, idx |-> Len(d.final_prospects)])
                            ELSE d.seen_titles_lower]

\* DedupIter replacing the kept entry whenever the new name does not look like a title,
\* whatever the kept name looks like
DedupIterNewWins(d, p) ==
  LET name_lower == Strip(StrLower(p.name))
      title_lower == Strip(StrLower(IF Truthy(p.title) THEN p.title ELSE <<>>))
  IN IF name_lower \in d.seen_names_lower THEN d
     ELSE IF title_lower # <<>> /\ TitleSeen(d, title_lower)
     THEN IF ~LooksLikeTitle(p.name) THEN ReplaceKept(d, TitleIdx(d, title_lower), p) ELSE d
     ELSE KeepNew(d, p)

\* one iteration of  for p in raw_prospects
DedupIter(d, p) ==
  LET name_lower == Strip(StrLower(p.name))
      title_lower == Strip(StrLower(IF Truthy(p.title) THEN p.title ELSE <<>>))
  IN IF name_lower \in d.seen_names_lower THEN d
     ELSE IF title_lower # <<>> /\ TitleSeen(d, title_lower)
     THEN LET existing_idx == TitleIdx(d, title_lower)
              existing == d.final_prospects[existing_idx + 1]
          IN IF LooksLikeTitle(existing.name) /\ ~LooksLikeTitle(p.name)
             THEN ReplaceKept(d, existing_idx, p)
             ELSE d
     ELSE KeepNew(d, p)

Deduplicate(raw_prospects) ==
  ForRange(LAMBDA d, k : DedupIter(d, raw_prospects[k]), 1, Len(raw_prospects),
           DedupStart).final_prospects

_extract_regex(content, source_url) ==
  IF content = PyNone \/ content = <<>> \/ Len(Strip(content)) < MinContentLen THEN <<>>
  ELSE Deduplicate(RawProspects(content, source_url))


(***************************************************************************)
(* HTML Block/Card Strategy: _extract_from_html_cards                      *)
(***************************************************************************)
MaxBlockLen == 2000
MinBlockLen == 10
MinTextLen == 5
MaxTextLen == 500
TitleBefore == 5
TitleAfter == 80

cards_title_keywords_lower ==
  << <<"c","e","o">>, <<"c","t","o">>, <<"c","f","o">>, <<"c","o","o">>, <<"c","m","o">>, <<"v","p">>,
     <<"d","i","r","e","c","t","o","r">>, <<"m","a","n","a","g","e","r">>,
     <<"h","e","a","d"," ","o","f">>, <<"l","e","a","d">>, <<"e","n","g","i","n","e","e","r">>,
     <<"d","e","v","e","l","o","p","e","r">>, <<"d","e","s","i","g","n","e","r">>,
     <<"f","o","u","n","d","e","r">>, <<"p","r","e","s","i","d","e","n","t">>, <<"c","h","i","e","f">>,
     <<"o","f","f","i","c","e","r">>, <<"e","x","e","c","u","t","i","v","e">>,
     <<"c","o","n","s","u","l","t","a","n","t">>, <<"a","r","c","h","i","t","e","c","t">>,
     <<"p","r","i","n","c","i","p","a","l">>, <<"s","e","n","i","o","r">>,
     <<"p","a","r","t","n","e","r">>, <<"a","n","a","l","y","s","t">>,
     <<"c","o","o","r","d","i","n","a","t","o","r">>, <<"s","p","e","c","i","a","l","i","s","t">>,
     <<"r","e","c","r","u","i","t","e","r">>, <<"a","d","v","i","s","o","r">>,
     <<"s","t","r","a","t","e","g","i","s","t">>, <<"a","s","s","o","c","i","a","t","e">>,
     <<"c","o","-","f","o","u","n","d","e","r">>, <<"c","o","n","t","r","o","l","l","e","r">>,
     <<"m","a","n","a","g","i","n","g">> >>

cards_skip_words ==
  { <<"p","r","i","v","a","c","y">>, <<"p","o","l","i","c","y">>, <<"t","e","r","m","s">>,
     <<"c","o","p","y","r","i","g","h","t">>, <<"c","o","n","t","a","c","t">>, <<"a","b","o","u","t">>,
     <<"l","e","a","r","n">>, <<"r","e","a","d">>, <<"m","o","r","e">>, <<"v","i","e","w">>,
     <<"s","i","g","n">>, <<"j","o","i","n">>, <<"f","o","l","l","o","w">>, <<"g","e","t">>,
     <<"s","t","a","r","t","e","d">> }

cards_title_first ==
  << <<"c","h","i","e","f">>, <<"v","i","c","e">>, <<"s","e","n","i","o","r">>,
     <<"j","u","n","i","o","r">>, <<"l","e","a","d">>, <<"p","r","i","n","c","i","p","a","l">>,
     <<"d","i","r","e","c","t","o","r">>, <<"m","a","n","a","g","e","r">>, <<"h","e","a","d">>,
     <<"g","e","n","e","r","a","l">>, <<"m","a","n","a","g","i","n","g">> >>

AnyChar == NCls({})                         \* . under re.DOTALL
NotGt == NCls({">"})
\* <script[^>]*>.*?</script> and <style[^>]*>.*?</style>  (re.DOTALL | re.IGNORECASE)
script_element == Cat(<<LitI(<<"<","s","c","r","i","p","t">>), Star(NotGt), Cls({">"}),
                        LazyRep(AnyChar, 0, -1), LitI(<<"<","/","s","c","r","i","p","t",">">>)>>)
style_element == Cat(<<LitI(<<"<","s","t","y","l","e">>), Star(NotGt), Cls({">"}),
                       LazyRep(AnyChar, 0, -1), LitI(<<"<","/","s","t","y","l","e",">">>)>>)
\* <(?:div|section|article|li|td|figure)[^>]*>  (re.IGNORECASE)
block_tag == Cat(<<Cls({"<"}), Alt(<<LitI(<<"d","i","v">>), LitI(<<"s","e","c","t","i","o","n">>), LitI(<<"a","r","t","i","c","l","e">>), LitI(<<"l","i">>), LitI(<<"t","d">>), LitI(<<"f","i","g","u","r","e">>)>>),
                   Star(NotGt), Cls({">"})>>)
\* <[^>]+>
any_tag == Cat(<<Cls({"<"}), Plus(NotGt), Cls({">"})>>)

\* re.split(r, s) for a pattern without groups
ReSplit(r, s) == Pieces(s, FindIter(Empty, r, Empty, s, 0))

\* \b([A-Z][a-z]{1,15}(?:\s+[A-Z]\.?)?\s+[A-Z][a-z]{1,20}(?:\s+[A-Z][a-z]{1,20})?)\b
cards_name_grp ==
  Cat(<<AZ, Rep(az, 1, 15), Opt(Cat(<<Plus(Ws), AZ, Opt(Cls({"."}))>>)), Plus(Ws),
        AZ, Rep(az, 1, 20), Opt(Cat(<<Plus(Ws), AZ, Rep(az, 1, 20)>>))>>)

\* https?://(?:www\.)?linkedin\.com/in/[^\s"\'<>]+
cards_linkedin == Cat(<<Http, Opt(Lit(<<"w","w","w",".">>)), Lit(<<"l","i","n","k","e","d","i","n",".","c","o","m","/","i","n","/">>),
                        Plus(NCls(Space \cup {"\"", "'", "<", ">"}))>>)
\* [\(]?\d{3}[\).\-\s]?\s*\d{3}[\-.\s]\d{4}
cards_phone == Cat(<<Opt(Cls({"("})), Rep(Cls(Digit), 3, 3), Opt(Cls(Space \cup {")", ".", "-"})),
                     Star(Ws), Rep(Cls(Digit), 3, 3), Cls(Space \cup {"-", "."}),
                     Rep(Cls(Digit), 4, 4)>>)

\* re.search(r, s).group(0), None without a match
GroupOrNone(s, m) == IF m.ok THEN Group(s, m) ELSE PyNone
SearchWhole(r, s) == GroupOrNone(s, SearchFrom(Empty, r, Empty, s, 0))

\* s.rstrip('/')
RStripSlash(s) == SubSeq(s, 1, MaxOf({i \in 1..Len(s) : s[i] # "/"} \cup {0}))

\* the text of a block: tags to spaces, whitespace runs to one space, stripped
OneSpaced(text) == Strip(SubConst(Plus(Ws), <<" ">>, text))
BlockText(block) == Bind(SubConst(any_tag, <<" ">>, block), OneSpaced)

\* the title found for keyword kw in a block's text, None when the keyword yields none
CardTitleFor(text, name_lower, kw) ==
  LET segments == SplitStr(text, <<" ", " ">>)
      hits == {g \in 1..Len(segments) :
                 LET seg_clean == Strip(segments[g])
                 IN /\ Contains(StrLower(seg_clean), kw)
                    /\ StrLower(seg_clean) # name_lower
                    /\ Len(seg_clean) < MaxTitleLen}
      idx == Find(StrLower(text), kw)
      candidate == Strip(Slice(text, Max(0, idx - TitleBefore), Min(Len(text), idx + TitleAfter)))
  IN IF hits # {} THEN Strip(segments[MinOf(hits)])
     ELSE IF candidate # <<>> /\ StrLower(candidate) # name_lower THEN candidate
     ELSE PyNone

\* the loop over title_keywords_lower: it breaks at the first keyword that yields a title
FirstCardTitle(titles, hits) == IF hits = {} THEN PyNone ELSE titles[MinOf(hits)]
CardTitleAmong(titles) == FirstCardTitle(titles, {k \in 1..Len(titles) : Truthy(titles[k])})
CardTitle(text, name_lower) ==
  Bind([k \in 1..Len(cards_title_keywords_lower) |->
          IF Contains(StrLower(text), cards_title_keywords_lower[k])
          THEN CardTitleFor(text, name_lower, cards_title_keywords_lower[k])
          ELSE PyNone],
       CardTitleAmong)

\* the filters a name goes through before its signals are looked for
CardNameOk(name, seen_names) ==
  LET name_lower == StrLower(name)
  IN /\ TokenCount(name) >= 2
     /\ name_lower \notin seen_names
     /\ \A w \in cards_skip_words : ~Contains(name_lower, w)
     /\ \A k \in 1..Len(cards_title_first) : StrLower(SplitWs(name)[1]) # cards_title_first[k]

\* li_match.group(0).rstrip('/') if li_match else None
CardLinkedin(li) == IF li = PyNone THEN PyNone ELSE RStripSlash(li)

CardProspect(block, text, name, source_url) ==
  [name |-> name,
   title |-> CardTitle(text, StrLower(name)),
   company |-> PyNone,
   email |-> PreferPersonal(FindAll(email_pattern, text)),
   phone |-> SearchWhole(cards_phone, text),
   linkedin_url |-> CardLinkedin(SearchWhole(cards_linkedin, block)),
   source |-> source_url]

\* if title or email or linkedin_url or phone
CardGate(p) == Truthy(p.title) \/ Truthy(p.email) \/ Truthy(p.linkedin_url) \/ Truthy(p.phone)

\* the loop over the names of one block; acc holds seen_names and prospects
\* acc after one name: the name is kept when it passes the filters and the gate
CardKeep(acc, name, p) ==
  IF CardNameOk(name, acc.seen_names) /\ CardGate(p)
  THEN [seen_names |-> acc.seen_names \cup {StrLower(name)},
        prospects |-> Append(acc.prospects, WithConfidence(p))]
  ELSE acc

CardNames(block, text, names, acc, source_url) ==
  ForRange(LAMBDA kept, k : CardKeep(kept, Strip(names[k]),
                                     CardProspect(block, text, Strip(names[k]), source_url)),
           1, Len(names), acc)

\* the loop over text_blocks
\* acc after one block
CardBlock(block, text, acc, source_url) ==
  IF Len(block) > MaxBlockLen \/ Len(block) < MinBlockLen THEN acc
  ELSE IF Len(text) < MinTextLen \/ Len(text) > MaxTextLen THEN acc
  ELSE Bind(Groups(text, FindIter(Wb, cards_name_grp, Wb, text, 0)),
            LAMBDA names : CardNames(block, text, names, acc, source_url))

CardBlocks(text_blocks, source_url) ==
  ForRange(LAMBDA kept, b : Bind(BlockText(text_blocks[b]),
                                 LAMBDA text : CardBlock(text_blocks[b], text, kept, source_url)),
           1, Len(text_blocks), [seen_names |-> {}, prospects |-> <<>>])

Unscript(html) == SubConst(script_element, <<>>, html)
Unstyle(html) == SubConst(style_element, <<>>, html)
TextBlocks(html) == ReSplit(block_tag, html)
CardsOf(text_blocks, source_url) == CardBlocks(text_blocks, source_url).prospects

_extract_from_html_cards(html_content, source_url) ==
  IF html_content = PyNone \/ html_content = <<>> THEN <<>>
  ELSE Bind(Unscript(html_content), LAMBDA clean :
       Bind(Unstyle(clean), LAMBDA cleaner :
       Bind(TextBlocks(cleaner), LAMBDA text_blocks : CardsOf(text_blocks, source_url))))

(***************************************************************************)
(* Heading Strategy: _extract_from_headings                                *)
(***************************************************************************)
HeadingContext == 400
HeadingLines == 6

headings_title_keywords_lower ==
  << <<"c","e","o">>, <<"c","t","o">>, <<"c","f","o">>, <<"c","o","o">>, <<"c","m","o">>, <<"v","p">>,
     <<"d","i","r","e","c","t","o","r">>, <<"m","a","n","a","g","e","r">>,
     <<"h","e","a","d"," ","o","f">>, <<"l","e","a","d">>, <<"f","o","u","n","d","e","r">>,
     <<"p","r","e","s","i","d","e","n","t">>, <<"c","h","i","e","f">>, <<"o","f","f","i","c","e","r">>,
     <<"p","a","r","t","n","e","r">>, <<"e","x","e","c","u","t","i","v","e">>,
     <<"p","r","i","n","c","i","p","a","l">>, <<"s","e","n","i","o","r">>,
     <<"a","s","s","o","c","i","a","t","e">>, <<"c","o","-","f","o","u","n","d","e","r">>,
     <<"a","n","a","l","y","s","t">> >>

\* ^#{2,4}\s+([A-Z][a-z]+ [A-Z][a-z]+(?: [A-Z][a-z]+)?)\s*$  (re.MULTILINE)
heading_pre == Cat(<<Bol, Rep(Cls({"#"}), 2, 4), Plus(Ws)>>)
heading_post == Cat(<<Star(Ws), Eol>>)
\* https?://(?:www\.)?linkedin\.com/in/[^\s)]+
headings_linkedin == Cat(<<Http, Opt(Lit(<<"w","w","w",".">>)), Lit(<<"l","i","n","k","e","d","i","n",".","c","o","m","/","i","n","/">>),
                           Plus(NCls(Space \cup {")"}))>>)

IsHeadingTitleLine(line_stripped) ==
  /\ line_stripped # <<>>
  /\ ~StartsWith(line_stripped, <<"#">>)
  /\ \E k \in 1..Len(headings_title_keywords_lower) :
        Contains(StrLower(line_stripped), headings_title_keywords_lower[k])
  /\ Len(line_stripped) < MaxTitleLen

HeadingTitleAmong(lines) ==
  FirstTitleLine(lines, {k \in 1..Min(HeadingLines, Len(lines)) :
                           IsHeadingTitleLine(Strip(lines[k]))})
HeadingTitle(context) == HeadingTitleAmong(SplitOn(context, "\n"))

\* emails[0] if emails else None
FirstOrNone(emails) == IF emails # <<>> THEN emails[1] ELSE PyNone

HeadingFields(name, context, source_url) ==
  [name |-> name,
   title |-> HeadingTitle(context),
   company |-> PyNone,
   email |-> FirstOrNone(FindAll(email_pattern, context)),
   linkedin_url |-> SearchWhole(headings_linkedin, context),
   source |-> source_url]

HeadingProspect(content, m, source_url) ==
  HeadingFields(Strip(Group(content, m)), Slice(content, m.e, m.e + HeadingContext), source_url)

\* if title or email or linkedin_url
HeadingGate(p) == Truthy(p.title) \/ Truthy(p.email) \/ Truthy(p.linkedin_url)

\* the loop over the heading matches; acc holds seen_names and prospects
\* acc after one heading
HeadingKeep(acc, p) ==
  IF StrLower(p.name) \in acc.seen_names \/ TokenCount(p.name) < 2 THEN acc
  ELSE IF HeadingGate(p)
  THEN [seen_names |-> acc.seen_names \cup {StrLower(p.name)},
        prospects |-> Append(acc.prospects, WithConfidence(p))]
  ELSE acc

HeadingLoop(content, ms, source_url) ==
  ForRange(LAMBDA acc, k : HeadingKeep(acc, HeadingProspect(content, ms[k], source_url)),
           1, Len(ms), [seen_names |-> {}, prospects |-> <<>>])

_extract_from_headings(content, source_url) ==
  IF content = PyNone \/ content = <<>> THEN <<>>
  ELSE HeadingLoop(content, FindIter(heading_pre, name_pattern_grp, heading_post, content, 0),
                   source_url).prospects


(***************************************************************************)
(* Structured-Data Strategy: _extract_from_jsonld                          *)
(***************************************************************************)
\* A decoded JSON value: a tag and a payload
JStr(s) == [t |-> "str", v |-> s]
JNull == [t |-> "null", v |-> <<>>]
JNum == [t |-> "num", v |-> <<>>]           \* a non-zero number
JList(xs) == [t |-> "list", v |-> xs]
JDict(f) == [t |-> "dict", v |-> f]         \* f: a function from keys to values

\* the JSON documents that occur in the pages checked
Doc_Bare ==
  <<"{","\"","@","t","y","p","e","\"",":","\"","P","e","r","s","o","n","\"",",","\"","n","a","m",
    "e","\"",":","\"","A","l"," ","P","o","\"","}">>
Doc_Pair ==
  <<"[","{","\"","@","t","y","p","e","\"",":","\"","P","e","r","s","o","n","\"",",","\"","n","a",
    "m","e","\"",":","\"","A","l"," ","P","o","\"",",","\"","j","o","b","T","i","t","l","e","\"",
    ":","\"","A","l"," ","P","o","\"","}",",","{","\"","@","t","y","p","e","\"",":","\"","P","e",
    "r","s","o","n","\"",",","\"","n","a","m","e","\"",":","\"","A","L"," ","P","O","\"",",","\"",
    "e","m","a","i","l","\"",":","\"","a","l","@","x",".","i","o","\"","}","]">>
Doc_Graph ==
  <<"{","\"","@","g","r","a","p","h","\"",":","[","{","\"","@","t","y","p","e","\"",":","\"","O",
    "r","g","\"",",","\"","n","a","m","e","\"",":","\"","A","c","m","e","\"","}",",","{","\"","@",
    "t","y","p","e","\"",":","\"","P","e","r","s","o","n","\"",",","\"","n","a","m","e","\"",":",
    "\"","B","o"," ","L","i","\"",",","\"","j","o","b","T","i","t","l","e","\"",":","\"","C","T",
    "O","\"",",","\"","w","o","r","k","s","F","o","r","\"",":","{","\"","n","a","m","e","\"",":",
    "\"","A","c","m","e","\"","}",",","\"","s","a","m","e","A","s","\"",":","[","\"","h","t","t",
    "p","s",":","/","/","l","i","n","k","e","d","i","n",".","c","o","m","/","c","o","m","p",
    "a","n","y","/","a","\"",",","\"","h","t","t","p","s",":","/","/","l","i","n","k","e","d",
    "i","n",".","c","o","m","/","i","n","/","b","o","\"","]","}","]","}">>
Doc_Text ==
  <<"\"","x","\"">>
Doc_NumTitle ==
  <<"{","\"","@","t","y","p","e","\"",":","\"","P","e","r","s","o","n","\"",",","\"","n","a","m",
    "e","\"",":","\"","D","i"," ","X","u","\"",",","\"","j","o","b","T","i","t","l","e","\"",":",
    "7","}">>
Doc_NumLinks ==
  <<"[","{","\"","@","t","y","p","e","\"",":","\"","P","e","r","s","o","n","\"",",","\"","n","a",
    "m","e","\"",":","\"","C","y"," ","R","a","\"",",","\"","w","o","r","k","s","F","o","r","\"",
    ":","\"","A","c","m","e","\"","}",",","{","\"","@","t","y","p","e","\"",":","\"","P","e","r",
    "s","o","n","\"",",","\"","n","a","m","e","\"",":","\"","E","d"," ","Y","u","\"",",","\"","s",
    "a","m","e","A","s","\"",":","7","}","]">>
Doc_Trio ==
  <<"[","{","\"","@","t","y","p","e","\"",":","\"","P","e","r","s","o","n","\"",",","\"","n",
    "a","m","e","\"",":","\"","A","l"," ","P","o","\"","}",",","{","\"","@","t","y","p","e",
    "\"",":","\"","P","e","r","s","o","n","\"",",","\"","n","a","m","e","\"",":","\"","b","o",
    " ","l","i","\"","}",",","{","\"","@","t","y","p","e","\"",":","\"","P","e","r","s","o","n",
    "\"",",","\"","n","a","m","e","\"",":","\"","C","y"," ","R","a","\"","}","]">>
Doc_Broken ==
  <<"{","\"","@","t","y","p","e","\"",":","\"","P","e","r","s","o","n","\"",",">>

\* json.loads: the decoded value of a document, ok = FALSE where it raises ValueError
JsonLoads(text) ==
  CASE text = Doc_Bare ->
         [ok |-> TRUE,
          val |-> JDict(("@type" :> JStr(<<"P","e","r","s","o","n">>)) @@
                       ("name" :> JStr(<<"A","l"," ","P","o">>)))]
    [] text = Doc_Pair ->
         [ok |-> TRUE,
          val |-> JList(<<JDict(("@type" :> JStr(<<"P","e","r","s","o","n">>)) @@
                               ("name" :> JStr(<<"A","l"," ","P","o">>)) @@
                               ("jobTitle" :> JStr(<<"A","l"," ","P","o">>))),
                         JDict(("@type" :> JStr(<<"P","e","r","s","o","n">>)) @@
                               ("name" :> JStr(<<"A","L"," ","P","O">>)) @@
                               ("email" :> JStr(<<"a","l","@","x",".","i","o">>)))>>)]
    [] text = Doc_Graph ->
         [ok |-> TRUE,
          val |-> JDict(("@graph" :> JList(<<JDict(("@type" :> JStr(<<"O","r","g">>)) @@
                                                 ("name" :> JStr(<<"A","c","m","e">>))),
                                           JDict(("@type" :> JStr(<<"P","e","r","s","o","n">>)) @@
                                                 ("name" :> JStr(<<"B","o"," ","L","i">>)) @@
                                                 ("jobTitle" :> JStr(<<"C","T","O">>)) @@
                                                 ("worksFor" :> JDict(("name" :> JStr(<<"A","c","m","e">>)))) @@
                                                 ("sameAs" :> JList(<<JStr(<<"h","t","t","p","s",":","/","/","l","i","n","k","e","d","i","n",".","c","o","m","/","c","o","m","p","a","n","y","/","a">>),
                                                                     JStr(<<"h","t","t","p","s",":","/","/","l","i","n","k","e","d","i","n",".","c","o","m","/","i","n","/","b","o">>)>>)))>>)))]
    [] text = Doc_Text ->
         [ok |-> TRUE,
          val |-> JStr(<<"x">>)]
    [] text = Doc_NumTitle ->
         [ok |-> TRUE,
          val |-> JDict(("@type" :> JStr(<<"P","e","r","s","o","n">>)) @@
                       ("name" :> JStr(<<"D","i"," ","X","u">>)) @@
                       ("jobTitle" :> JNum))]
    [] text = Doc_NumLinks ->
         [ok |-> TRUE,
          val |-> JList(<<JDict(("@type" :> JStr(<<"P","e","r","s","o","n">>)) @@
                               ("name" :> JStr(<<"C","y"," ","R","a">>)) @@
                               ("worksFor" :> JStr(<<"A","c","m","e">>))),
                         JDict(("@type" :> JStr(<<"P","e","r","s","o","n">>)) @@
                               ("name" :> JStr(<<"E","d"," ","Y","u">>)) @@
                               ("sameAs" :> JNum))>>)]
    [] text = Doc_Trio ->
         [ok |-> TRUE,
          val |-> JList(<<JDict(("@type" :> JStr(<<"P","e","r","s","o","n">>)) @@
                               ("name" :> JStr(<<"A","l"," ","P","o">>))),
                         JDict(("@type" :> JStr(<<"P","e","r","s","o","n">>)) @@
                               ("name" :> JStr(<<"b","o"," ","l","i">>))),
                         JDict(("@type" :> JStr(<<"P","e","r","s","o","n">>)) @@
                               ("name" :> JStr(<<"C","y"," ","R","a">>)))>>)]
    [] OTHER -> [ok |-> FALSE, val |-> JNull]

\* bool(v)
JTruthy(j) == CASE j.t = "null" -> FALSE
                [] j.t = "num" -> TRUE
                [] OTHER -> j.v # <<>>
\* d.get(key): None when the key is absent
JGet(d, key) == IF key \in DOMAIN d.v THEN d.v[key] ELSE JNull
\* the value as a prospect field holds it
ToPy(j) == CASE j.t = "str" -> j.v
             [] j.t = "null" -> PyNone
             [] j.t = "num" -> PyInt
\* item.get('@type') == 'Person'
IsPersonType(ty) == ty.t = "str" /\ ty.v = <<"P","e","r","s","o","n">>
IsPerson(item) == IsPersonType(JGet(item, "@type"))

\* <script[^>]*type=["\']application/ld\+json["\'][^>]*>(.*?)</script>  (re.DOTALL | re.IGNORECASE)
ld_pre == Cat(<<LitI(<<"<","s","c","r","i","p","t">>), Star(NotGt), LitI(<<"t","y","p","e","=">>), Cls({"\"", "'"}),
                LitI(<<"a","p","p","l","i","c","a","t","i","o","n","/","l","d","+","j","s","o","n">>), Cls({"\"", "'"}), Star(NotGt), Cls({">"})>>)
ld_post == LitI(<<"<","/","s","c","r","i","p","t",">">>)
LdBlocks(html_content) ==
  Groups(html_content, FindIter(ld_pre, LazyRep(AnyChar, 0, -1), ld_post, html_content, 0))

\* for link in (person.get('sameAs') or []): the first link with 'linkedin.com' in str(link).
\* status "TypeError": the value cannot be iterated
FirstLink(links, hits) == IF hits = {} THEN PyNone ELSE links[MinOf(hits)].v
LinkedinAmong(links) ==
  FirstLink(links, {k \in 1..Len(links) :
                      links[k].t = "str" /\ Contains(links[k].v, <<"l","i","n","k","e","d","i","n",".","c","o","m">>)})
SameAsOf(same) ==
  CASE ~JTruthy(same) -> [status |-> "ok", url |-> PyNone]
    [] same.t = "num" -> [status |-> "TypeError", url |-> PyNone]
    [] same.t = "str" -> [status |-> "ok", url |-> PyNone]
    [] same.t = "list" -> [status |-> "ok", url |-> LinkedinAmong(same.v)]
SameAsLink(person) == SameAsOf(JGet(person, "sameAs"))

\* worksFor: a dict gives its name, a str itself, anything else None
OrgName(org) ==
  CASE org.t = "dict" -> ToPy(JGet(org, "name"))
    [] org.t = "str" -> org.v
    [] OTHER -> PyNone
WorksFor(person) == OrgName(JGet(person, "worksFor"))

\* the body of  for person in persons: status "skip" (continue), "emit" (append),
\* "TypeError" (caught, the block is left) or "AttributeError" (not caught)
\* person.get('name', '')
PersonName(person) == IF "name" \in DOMAIN person.v THEN person.v["name"] ELSE JStr(<<>>)

PersonEmit(prospect) ==
  IF ConfidenceRaises(prospect) THEN [status |-> "AttributeError", prospect |-> <<>>]
  ELSE [status |-> "emit", prospect |-> WithConfidence(prospect)]

PersonFields(person, name, link, source_url) ==
  IF ~JTruthy(name) THEN [status |-> "skip", prospect |-> <<>>]
  ELSE IF name.t # "str" THEN [status |-> "AttributeError", prospect |-> <<>>]
  ELSE IF TokenCount(name.v) < 2 THEN [status |-> "skip", prospect |-> <<>>]
  ELSE IF link.status # "ok" THEN [status |-> "TypeError", prospect |-> <<>>]
  ELSE PersonEmit([name |-> ToPy(name),
                   title |-> ToPy(JGet(person, "jobTitle")),
                   company |-> WorksFor(person),
                   email |-> ToPy(JGet(person, "email")),
                   linkedin_url |-> link.url,
                   source |-> source_url])

PersonStep(person, source_url) ==
  PersonFields(person, PersonName(person), SameAsLink(person), source_url)

RECURSIVE PersonsLoop(_, _, _, _)
PersonNext(persons, k, prospects, source_url, r) ==
  CASE r.status = "skip" -> PersonsLoop(persons, k + 1, prospects, source_url)
    [] r.status = "emit" ->
         PersonsLoop(persons, k + 1, Append(prospects, r.prospect), source_url)
    [] OTHER -> [status |-> r.status, prospects |-> prospects]
PersonsLoop(persons, k, prospects, source_url) ==
  IF k > Len(persons) THEN [status |-> "ok", prospects |-> prospects]
  ELSE PersonNext(persons, k, prospects, source_url, PersonStep(persons[k], source_url))

RECURSIVE ItemsLoop(_, _, _, _)
\* the body of  for item in items; item.get on a value that is no dict raises AttributeError
ItemNext(items, k, source_url, r) ==
  IF r.status = "ok" THEN ItemsLoop(items, k + 1, r.prospects, source_url) ELSE r

\* persons = [item] if item is a Person else [p for p in item['@graph'] if p is a Person]
PersonsOf(item, graph) == IF IsPerson(item) THEN <<item>> ELSE SelectSeq(graph.v, IsPerson)

ItemStep(items, k, prospects, source_url, item, graph) ==
  IF item.t # "dict" THEN [status |-> "AttributeError", prospects |-> prospects]
  ELSE IF ~(IsPerson(item) \/ graph.t = "list")
  THEN ItemsLoop(items, k + 1, prospects, source_url)
  ELSE IF ~IsPerson(item) /\ \E g \in 1..Len(graph.v) : graph.v[g].t # "dict"
  THEN [status |-> "AttributeError", prospects |-> prospects]
  ELSE ItemNext(items, k, source_url,
                PersonsLoop(PersonsOf(item, graph), 1, prospects, source_url))

ItemsLoop(items, k, prospects, source_url) ==
  IF k > Len(items) THEN [status |-> "ok", prospects |-> prospects]
  ELSE ItemStep(items, k, prospects, source_url, items[k], JGet(items[k], "@graph"))

RECURSIVE LdLoop(_, _, _, _)
\* the loop over ld_blocks: ValueError and TypeError leave the block (except: continue),
\* AttributeError leaves the function
\* items = data if isinstance(data, list) else [data]
ItemsOf(data) == IF data.val.t = "list" THEN data.val.v ELSE <<data.val>>

LdNext(ld_blocks, k, source_url, r) ==
  IF r.status = "AttributeError" THEN [raised |-> TRUE, prospects |-> <<>>]
  ELSE LdLoop(ld_blocks, k + 1, r.prospects, source_url)

LdStep(ld_blocks, k, prospects, source_url, data) ==
  IF ~data.ok THEN LdLoop(ld_blocks, k + 1, prospects, source_url)
  ELSE LdNext(ld_blocks, k, source_url, ItemsLoop(ItemsOf(data), 1, prospects, source_url))

LdLoop(ld_blocks, k, prospects, source_url) ==
  IF k > Len(ld_blocks) THEN [raised |-> FALSE, prospects |-> prospects]
  ELSE LdStep(ld_blocks, k, prospects, source_url, JsonLoads(ld_blocks[k]))

\* [raised, prospects]: raised when an exception leaves the function
_extract_from_jsonld(html_content, source_url) ==
  IF html_content = PyNone \/ html_content = <<>> THEN [raised |-> FALSE, prospects |-> <<>>]
  ELSE LdLoop(LdBlocks(html_content), 1, <<>>, source_url)


(***************************************************************************)
(* The pages checked: markdown made of blocks, HTML made of pieces         *)
(***************************************************************************)
Md_Jane ==
  <<"J","a","n","e"," ","D","o","e","\n","V","P"," ","o","f"," ","E","n","g","i","n","e","e",
    "r","i","n","g","\n","A","c","m","e"," ","C","o","r","p","\n","j","a","n","e","@","a","c",
    "m","e",".","c","o","m">>
Md_Nav ==
  <<"C","o","n","t","a","c","t"," ","U","s","\n","P","r","i","v","a","c","y"," ","P","o","l",
    "i","c","y">>
Md_HeadSelf ==
  <<"#","#"," ","J","o","h","n"," ","C","o","o","p","e","r","\n","J","o","h","n"," ","C","o",
    "o","p","e","r">>
Md_Cooper ==
  <<"J","o","h","n"," ","C","o","o","p","e","r","\n","C","E","O">>
Md_Ann ==
  <<"A","n","n"," ","L","e","e","\n","C","e","o">>
Md_HeadAnn ==
  <<"#","#"," ","A","n","n"," ","L","e","e","\n","C","E","O">>
Md_Tom ==
  <<"T","o","m"," ","R","a","y","\n","i","n","f","o","@","x",".","i","o"," ","t","o","m","@",
    "x",".","i","o","\n","F","o","o"," ","I","n","c">>
Md_Amy ==
  <<"*","*","A","m","y"," ","F","o","x","*","*","\n","*","C","T","O","*","\n","[","i","n","]",
    "(","h","t","t","p","s",":","/","/","w","w","w",".","l","i","n","k","e","d","i","n",".",
    "c","o","m","/","i","n","/","a","m","y",")">>
Md_Policy ==
  <<"#","#"," ","P","r","i","v","a","c","y"," ","P","o","l","i","c","y","\n","D","a","t","a",
    " ","O","f","f","i","c","e","r">>
Html_Jane ==
  <<"<","d","i","v",">","<","h","3",">","J","a","n","e"," ","D","o","e","<","/","h","3",">",
    "<","p",">","C","E","O","<","/","p",">","<","/","d","i","v",">">>
Html_Ann ==
  <<"<","l","i",">","A","n","n"," ","L","e","e"," ","a","n","n","@","x",".","i","o","<","/",
    "l","i",">">>
Html_Team ==
  <<"<","l","i",">","E","v","e"," ","O","r","r"," ","C","E","O","<","/","l","i",">","<","l","i",
    ">","I","a","n"," ","O","t","t"," ","C","T","O","<","/","l","i",">">>

LdOpen == <<"<","s","c","r","i","p","t"," ","t","y","p","e","=","\"","a","p","p","l","i","c","a","t",
    "i","o","n","/","l","d","+","j","s","o","n","\"",">">>
LdClose == <<"<","/","s","c","r","i","p","t",">">>
LdScript(doc) == LdOpen \o doc \o LdClose

MdBlocks ==
  <<Md_Jane, Md_Nav, Md_HeadSelf, Md_Cooper, Md_Ann, Md_HeadAnn, Md_Tom, Md_Amy, Md_Policy>>
HtmlPieces == <<Html_Jane, Html_Ann, Html_Team,
                LdScript(Doc_Bare),
                LdScript(Doc_Pair),
                LdScript(Doc_Graph),
                LdScript(Doc_Text),
                LdScript(Doc_NumTitle),
                LdScript(Doc_NumLinks),
                LdScript(Doc_Trio),
                LdScript(Doc_Broken)>>

\* the most blocks and pieces a page is made of, markdown and HTML together
MaxParts == 2

RECURSIVE JoinLines(_, _)
\* the blocks numbered ix[k..], one per line group
JoinLines(ix, k) ==
  IF k > Len(ix) THEN <<>>
  ELSE IF k = Len(ix) THEN MdBlocks[ix[k]]
  ELSE MdBlocks[ix[k]] \o <<"\n">> \o JoinLines(ix, k + 1)

RECURSIVE JoinPieces(_, _)
JoinPieces(ix, k) ==
  IF k > Len(ix) THEN <<>> ELSE HtmlPieces[ix[k]] \o JoinPieces(ix, k + 1)

SourceUrl == <<"u">>

(***************************************************************************)
(* State                                                                   *)
(***************************************************************************)
VARIABLES
  pc,               \* where the run stands
  content,          \* extract_prospects_from_content: the content argument
  html_content,     \* ... the html_content argument (PyNone: not given)
  source_url,       \* ... the source_url argument
  raw_prospects,    \* _extract_regex: raw_prospects, before the deduplication loop
  prospects,        \* extract_prospects_from_content: prospects, the best list so far
  found,            \* the list each strategy returned, for the strategies in ran
  ran,              \* the strategies run so far
  result,           \* the returned list
  dedup,            \* the loop's final_prospects, seen_names_lower, seen_titles_lower
  di,               \* the loop's position in raw_prospects (1-based)
  pass,             \* 1: the pass on the raw list, 2: the pass on its own output
  first_out,        \* the output of pass 1
  pages,            \* the per-page lists of a crawl, in page-processing order
  pgi,              \* the page loop's position in pages (1-based)
  route,            \* the route that merges: "crawl_website" or "search_prospects"
  all_prospects,    \* the concatenated per-page lists
  mi,               \* the merge loop's position in all_prospects (1-based)
  seen,             \* the merge loop's seen set
  unique_prospects, \* the merged output
  given,            \* calculate_extraction_confidence: the prospect argument
  score,            \* ... the returned score (PyNone: not yet returned)
  earlier,          \* the prospects scored before a field was filled in, with their scores
  calls             \* the concurrent calls of extract_prospects_from_content, each with its locals

vars == <<pc, content, html_content, source_url, raw_prospects, prospects, found, ran, result,
          dedup, di, pass, first_out, pages, pgi, route, all_prospects, mi, seen,
          unique_prospects, given, score, earlier, calls>>

extractVars == <<content, html_content, source_url, raw_prospects, prospects, found, ran, result>>
dedupVars == <<dedup, di, pass, first_out>>
mergeVars == <<pages, pgi, route, all_prospects, mi, seen, unique_prospects>>
scoreVars == <<given, score, earlier>>
callVars == <<calls>>

NoFound == [regex |-> <<>>, cards |-> <<>>, jsonld |-> <<>>, headings |-> <<>>]

ExtractIdle ==
  /\ content = <<>> /\ html_content = PyNone /\ source_url = SourceUrl
  /\ prospects = <<>> /\ found = NoFound /\ ran = {} /\ result = <<>>
DedupIdle == dedup = DedupStart /\ di = 1 /\ pass = 1 /\ first_out = <<>>
MergeIdle ==
  /\ pages = <<>> /\ pgi = 1 /\ route = "crawl_website" /\ all_prospects = <<>>
  /\ mi = 1 /\ seen = {} /\ unique_prospects = <<>>
ScoreIdle == given = PyNone /\ score = PyNone /\ earlier = <<>>
CallsIdle == calls = <<>>

(***************************************************************************)
(* Orchestrator: extract_prospects_from_content                            *)
(***************************************************************************)
MinProspects == 2

\* _extract_regex without the guard on short content
RegexRawUnguarded(c, url) ==
  IF c = PyNone \/ c = <<>> THEN <<>> ELSE RawProspects(c, url)

\* _extract_regex up to its deduplication loop
RegexRaw(c, url) ==
  IF c = PyNone \/ c = <<>> \/ Len(Strip(c)) < MinContentLen THEN <<>>
  ELSE RawProspects(c, url)

\* prospects = candidate without the length comparison
LastWins(candidate, best) == candidate

\* if len(candidate) > len(prospects): prospects = candidate
Better(candidate, best) == IF Len(candidate) > Len(best) THEN candidate ELSE best

\* if html_content, without the test on len(prospects)
HasHtml == Truthy(html_content)

\* if len(prospects) < 2 and html_content
WantsHtml == Len(prospects) < MinProspects /\ Truthy(html_content)

Init ==
  /\ pc = "regex"
  /\ source_url = SourceUrl
  /\ \E n \in 0..MaxParts : \E m \in 0..(MaxParts - n) :
       \E bs \in [1..n -> 1..Len(MdBlocks)] : \E hs \in [1..m -> 1..Len(HtmlPieces)] :
         /\ content = JoinLines(bs, 1)
         /\ html_content \in IF m = 0 THEN {PyNone, <<>>} ELSE {JoinPieces(hs, 1)}
  /\ raw_prospects = <<>> /\ prospects = <<>> /\ found = NoFound /\ ran = {} /\ result = <<>>
  /\ DedupIdle /\ MergeIdle /\ ScoreIdle /\ CallsIdle

RunRegex ==
  /\ pc = "regex"
  /\ raw_prospects' = RegexRaw(content, source_url)
  /\ prospects' = Deduplicate(raw_prospects')
  /\ found' = [found EXCEPT !.regex = prospects']
  /\ ran' = ran \cup {"regex"}
  /\ pc' = "cards"
  /\ UNCHANGED <<content, html_content, source_url, result, dedupVars, mergeVars, scoreVars, callVars>>

RunCards ==
  /\ pc = "cards" /\ WantsHtml
  /\ found' = [found EXCEPT !.cards = _extract_from_html_cards(html_content, source_url)]
  /\ prospects' = Better(found'.cards, prospects)
  /\ ran' = ran \cup {"cards"}
  /\ pc' = "jsonld"
  /\ UNCHANGED <<content, html_content, source_url, raw_prospects, result, dedupVars, mergeVars, scoreVars, callVars>>

SkipCards ==
  /\ pc = "cards" /\ ~WantsHtml
  /\ pc' = "jsonld"
  /\ UNCHANGED <<extractVars, dedupVars, mergeVars, scoreVars, callVars>>

RunJsonLd ==
  /\ pc = "jsonld" /\ WantsHtml
  /\ \E r \in {_extract_from_jsonld(html_content, source_url)} :
        /\ ~r.raised
        /\ found' = [found EXCEPT !.jsonld = r.prospects]
        /\ prospects' = Better(r.prospects, prospects)
  /\ ran' = ran \cup {"jsonld"}
  /\ pc' = "headings"
  /\ UNCHANGED <<content, html_content, source_url, raw_prospects, result, dedupVars, mergeVars, scoreVars, callVars>>

\* an exception leaves _extract_from_jsonld and, uncaught, extract_prospects_from_content
JsonLdRaises ==
  /\ pc = "jsonld" /\ WantsHtml
  /\ _extract_from_jsonld(html_content, source_url).raised
  /\ pc' = "raised"
  /\ UNCHANGED <<extractVars, dedupVars, mergeVars, scoreVars, callVars>>

SkipJsonLd ==
  /\ pc = "jsonld" /\ ~WantsHtml
  /\ pc' = "headings"
  /\ UNCHANGED <<extractVars, dedupVars, mergeVars, scoreVars, callVars>>

RunHeadings ==
  /\ pc = "headings" /\ Len(prospects) < MinProspects
  /\ found' = [found EXCEPT !.headings = _extract_from_headings(content, source_url)]
  /\ prospects' = Better(found'.headings, prospects)
  /\ ran' = ran \cup {"headings"}
  /\ pc' = "return"
  /\ UNCHANGED <<content, html_content, source_url, raw_prospects, result, dedupVars, mergeVars, scoreVars, callVars>>

SkipHeadings ==
  /\ pc = "headings" /\ ~(Len(prospects) < MinProspects)
  /\ pc' = "return"
  /\ UNCHANGED <<extractVars, dedupVars, mergeVars, scoreVars, callVars>>

Return ==
  /\ pc = "return"
  /\ result' = prospects
  /\ pc' = "done"
  /\ UNCHANGED <<content, html_content, source_url, raw_prospects, prospects, found, ran,
                 dedupVars, mergeVars, scoreVars, callVars>>

Next == \/ RunRegex \/ RunCards \/ SkipCards \/ RunJsonLd \/ JsonLdRaises \/ SkipJsonLd
        \/ RunHeadings \/ SkipHeadings \/ Return

Spec == Init /\ [][Next]_vars

(***************************************************************************)
(* The deduplication loop of _extract_regex, one iteration a step, run on  *)
(* a raw list and then on its own output                                   *)
(***************************************************************************)
MaxRaw == 3

\* a raw candidate as the anchor loop appends it
RawCandidate(name, title, company) ==
  WithConfidence([name |-> name, title |-> title, company |-> company, email |-> PyNone,
                  linkedin_url |-> PyNone, source |-> SourceUrl])

\* raw candidates: each passes the name filter and the title-or-company gate
RawPool ==
  SelectSeq(<<RawCandidate(<<"J","o","h","n"," ","C","o","o","p","e","r">>, <<"C","E","O">>, PyNone),
              RawCandidate(<<"J","o","h","n"," ","C","o","o","p","e","r">>, PyNone, <<"F","o","o"," ","I","n","c">>),
              RawCandidate(<<"A","n","n"," ","L","e","e">>, <<"C","E","O">>, PyNone),
              RawCandidate(<<"A","n","n"," ","L","e","e">>, <<"C","e","o">>, <<"F","o","o"," ","I","n","c">>),
              RawCandidate(<<"T","o","m"," ","R","a","y">>, <<"C","T","O">>, PyNone),
              RawCandidate(<<"T","o","m"," ","R","a","y">>, <<"C","E","O">>, PyNone),
              RawCandidate(<<"T","o","m"," ","R","a","y">>, PyNone, <<"F","o","o"," ","I","n","c">>)>>,
            LAMBDA p : RegexGate(p) /\ is_real_person_name(p.name))

InitDedup ==
  /\ pc = "dedup"
  /\ \E n \in 0..MaxRaw : \E f \in [1..n -> 1..Len(RawPool)] :
       raw_prospects = [k \in 1..n |-> RawPool[f[k]]]
  /\ DedupIdle /\ ExtractIdle /\ MergeIdle /\ ScoreIdle /\ CallsIdle

\* the list the running loop reads: the raw list, then the list the first run returned
DedupInput == IF pass = 1 THEN raw_prospects ELSE first_out

\* for p in raw_prospects: one iteration
DedupStep ==
  /\ pc = "dedup" /\ di <= Len(DedupInput)
  /\ dedup' = DedupIter(dedup, DedupInput[di])
  /\ di' = di + 1
  /\ UNCHANGED <<pc, raw_prospects, pass, first_out, content, html_content, source_url,
                 prospects, found, ran, result, mergeVars, scoreVars, callVars>>

\* return final_prospects; the returned list is handed to the loop again
DedupReturn ==
  /\ pc = "dedup" /\ di > Len(DedupInput) /\ pass = 1
  /\ first_out' = dedup.final_prospects
  /\ dedup' = DedupStart /\ di' = 1 /\ pass' = 2
  /\ UNCHANGED <<pc, raw_prospects, content, html_content, source_url, prospects, found, ran,
                 result, mergeVars, scoreVars, callVars>>

\* return final_prospects, of the second run
DedupAgainReturn ==
  /\ pc = "dedup" /\ di > Len(DedupInput) /\ pass = 2
  /\ pc' = "deduped"
  /\ UNCHANGED <<extractVars, dedupVars, mergeVars, scoreVars, callVars>>

NextDedup == DedupStep \/ DedupReturn \/ DedupAgainReturn

SpecDedup == InitDedup /\ [][NextDedup]_vars

(***************************************************************************)
(* Cross-page merge: crawl_website and search_prospects                    *)
(***************************************************************************)
MaxCands == 3

\* a candidate of a page's list
PageCandidate(name, company, email) ==
  WithConfidence([name |-> name, title |-> <<"C","E","O">>, company |-> company, email |-> email,
                  linkedin_url |-> PyNone, source |-> SourceUrl])

MergePool ==
  <<PageCandidate(<<"A","l"," ","P","o">>, PyNone, <<"a","@","x",".","i","o">>),
    PageCandidate(<<"B","o"," ","L","i">>, <<"A","c","m","e">>, <<"a","@","x",".","i","o">>),
    PageCandidate(<<"A","l"," ","P","o">>, <<"A","c","m","e">>, PyNone),
    PageCandidate(<<"A","l"," ","P","o">>, <<"A","c","m","e">>, <<>>),
    PageCandidate(<<"A","l"," ","P","o">>, PyNone, PyNone),
    PageCandidate(<<"A","l"," ","P","o">>, <<"N","o","n","e">>, PyNone),
    PageCandidate(<<"B","o"," ","L","i">>, <<"A","c","m","e">>, <<"b","@","x",".","i","o">>)>>

\* crawl_website: prospect.get('email') or f"{prospect.get('name')}_{prospect.get('company')}"
crawl_identifier(prospect) ==
  IF Truthy(prospect.email) THEN prospect.email
  ELSE PyFormat(prospect.name) \o <<"_">> \o PyFormat(prospect.company)

\* search_prospects: the email, and when it is falsy the f-string of name and company
search_identifier(prospect) ==
  IF ~Truthy(prospect.email)
  THEN PyFormat(prospect.name) \o <<"_">> \o PyFormat(prospect.company)
  ELSE prospect.email

\* CrawlKeep without the test on seen
CrawlKeepAll(acc, prospect) ==
  [seen |-> acc.seen \cup {crawl_identifier(prospect)},
   unique_prospects |-> Append(acc.unique_prospects, prospect)]

\* crawl_website: if identifier not in seen: seen.add(identifier); unique_prospects.append(prospect)
CrawlKeep(acc, prospect) ==
  IF crawl_identifier(prospect) \notin acc.seen
  THEN [seen |-> acc.seen \cup {crawl_identifier(prospect)},
        unique_prospects |-> Append(acc.unique_prospects, prospect)]
  ELSE acc

\* SearchKeep where a later candidate takes the place of the kept one with its identifier
SearchKeepLatest(acc, prospect) ==
  IF search_identifier(prospect) \notin acc.seen
  THEN [seen |-> acc.seen \cup {search_identifier(prospect)},
        unique_prospects |-> Append(acc.unique_prospects, prospect)]
  ELSE [seen |-> acc.seen,
        unique_prospects |-> [k \in 1..Len(acc.unique_prospects) |->
            IF search_identifier(acc.unique_prospects[k]) = search_identifier(prospect)
            THEN prospect ELSE acc.unique_prospects[k]]]

\* search_prospects: if identifier and identifier not in seen: ...
SearchKeep(acc, prospect) ==
  IF Truthy(search_identifier(prospect)) /\ search_identifier(prospect) \notin acc.seen
  THEN [seen |-> acc.seen \cup {search_identifier(prospect)},
        unique_prospects |-> Append(acc.unique_prospects, prospect)]
  ELSE acc

InitMerge ==
  /\ pc = "collect"
  /\ route \in {"crawl_website", "search_prospects"}
  /\ \E n \in 0..MaxCands : \E f \in [1..n -> 1..Len(MergePool)] : \E cut \in 0..n :
       pages = << [k \in 1..cut |-> MergePool[f[k]]],
                  [k \in 1..(n - cut) |-> MergePool[f[cut + k]]] >>
  /\ pgi = 1 /\ all_prospects = <<>> /\ mi = 1 /\ seen = {} /\ unique_prospects = <<>>
  /\ raw_prospects = <<>> /\ DedupIdle /\ ExtractIdle /\ ScoreIdle /\ CallsIdle

\* for page in result['data']: all_prospects.extend(page_prospects)
ExtendPage ==
  /\ pc = "collect" /\ pgi <= Len(pages)
  /\ all_prospects' = all_prospects \o pages[pgi]
  /\ pgi' = pgi + 1
  /\ UNCHANGED <<pc, pages, route, mi, seen, unique_prospects, raw_prospects, extractVars,
                 dedupVars, scoreVars, callVars>>

\* unique_prospects = []; seen = set()
StartMerge ==
  /\ pc = "collect" /\ pgi > Len(pages)
  /\ unique_prospects' = <<>> /\ seen' = {} /\ mi' = 1
  /\ pc' = "merge"
  /\ UNCHANGED <<pages, route, pgi, all_prospects, raw_prospects, extractVars, dedupVars, scoreVars, callVars>>

\* crawl_website: one iteration of  for prospect in all_prospects
MergeCrawl ==
  /\ pc = "merge" /\ route = "crawl_website" /\ mi <= Len(all_prospects)
  /\ \E acc \in {CrawlKeep([seen |-> seen, unique_prospects |-> unique_prospects],
                           all_prospects[mi])} :
       seen' = acc.seen /\ unique_prospects' = acc.unique_prospects
  /\ mi' = mi + 1
  /\ UNCHANGED <<pc, pages, route, pgi, all_prospects, raw_prospects, extractVars, dedupVars, scoreVars, callVars>>

\* search_prospects: one iteration of  for prospect in prospects
MergeSearch ==
  /\ pc = "merge" /\ route = "search_prospects" /\ mi <= Len(all_prospects)
  /\ \E acc \in {SearchKeep([seen |-> seen, unique_prospects |-> unique_prospects],
                            all_prospects[mi])} :
       seen' = acc.seen /\ unique_prospects' = acc.unique_prospects
  /\ mi' = mi + 1
  /\ UNCHANGED <<pc, pages, route, pgi, all_prospects, raw_prospects, extractVars, dedupVars, scoreVars, callVars>>

\* return jsonify(... 'prospects': unique_prospects ...)
MergeReturn ==
  /\ pc = "merge" /\ mi > Len(all_prospects)
  /\ pc' = "merged"
  /\ UNCHANGED <<pages, route, pgi, all_prospects, mi, seen, unique_prospects, raw_prospects,
                 extractVars, dedupVars, scoreVars, callVars>>

NextMerge == ExtendPage \/ StartMerge \/ MergeCrawl \/ MergeSearch \/ MergeReturn

SpecMerge == InitMerge /\ [][NextMerge]_vars

(***************************************************************************)
(* Confidence Scorer: calculate_extraction_confidence called on a prospect, *)
(* and called again after a field that was absent has been filled in       *)
(***************************************************************************)
MaxFills == 2

\* the values a field of a scored prospect takes; None stands for an absent field
ScoreNames ==
  {PyNone, <<>>, <<"A","l">>, <<"A","l"," ","P","o">>, <<"a","l"," ","p","o"," ","l","i">>,
   <<"A","l"," ","B","."," ","P","o"," ","L","i">>}
ScoreTitles ==
  {PyNone, <<>>, <<"C","E","O">>, <<"v","p"," ","s","a","l","e","s">>, <<"C","l","e","r","k">>}
ScoreCompanies ==
  {PyNone, <<"A","c","m","e">>, <<"U","n","k","n","o","w","n"," ","C","o","m","p","a","n","y">>}
ScoreEmails == {PyNone, <<"a","@","x",".","i","o">>}
ScorePhones == {PyNone, <<"5","5","5","-","1","2","3","-","4","5","6","7">>}
ScoreLinks ==
  {PyNone, <<"h","t","t","p","s",":","/","/","l","i","n","k","e","d","i","n",".","c","o","m",
             "/","i","n","/","a">>}

FieldValues ==
  [title |-> ScoreTitles, company |-> ScoreCompanies, email |-> ScoreEmails,
   phone |-> ScorePhones, linkedin_url |-> ScoreLinks]

InitScore ==
  /\ pc = "score"
  /\ given \in [name : ScoreNames, title : ScoreTitles, company : ScoreCompanies,
                email : ScoreEmails, phone : ScorePhones, linkedin_url : ScoreLinks,
                source : {SourceUrl}]
  /\ score = PyNone /\ earlier = <<>>
  /\ raw_prospects = <<>> /\ ExtractIdle /\ DedupIdle /\ MergeIdle /\ CallsIdle

\* prospect['confidence'] = calculate_extraction_confidence(prospect)
ScoreProspect ==
  /\ pc = "score"
  /\ score' = calculate_extraction_confidence(given)
  /\ pc' = "scored"
  /\ UNCHANGED <<given, earlier, raw_prospects, extractVars, dedupVars, mergeVars, callVars>>

\* the caller fills in a field that was None and has the prospect scored again
FillField ==
  /\ pc = "scored" /\ Len(earlier) < MaxFills
  /\ \E field \in DOMAIN FieldValues : \E v \in FieldValues[field] \ {PyNone} :
       /\ given[field] = PyNone
       /\ given' = [given EXCEPT ![field] = v]
  /\ earlier' = Append(earlier, [prospect |-> given, score |-> score])
  /\ score' = PyNone
  /\ pc' = "score"
  /\ UNCHANGED <<raw_prospects, extractVars, dedupVars, mergeVars, callVars>>

NextScore == ScoreProspect \/ FillField

SpecScore == InitScore /\ [][NextScore]_vars

(***************************************************************************)
(* Concurrent calls of extract_prospects_from_content, one per page: each  *)
(* call has its own arguments and locals, and the calls' statements        *)
(* interleave                                                              *)
(***************************************************************************)
MaxCalls == 2

\* the pages the calls are made on: [content, html_content]
CallPages ==
  << [content |-> Md_Jane, html_content |-> PyNone],
     [content |-> Md_HeadAnn, html_content |-> Html_Jane],
     [content |-> Md_Nav, html_content |-> LdScript(Doc_Pair)],
     [content |-> <<>>, html_content |-> Html_Ann \o LdScript(Doc_Text)] >>

\* a call at its first statement
NewCall(page) ==
  [pc |-> "regex", content |-> page.content, html_content |-> page.html_content,
   source_url |-> SourceUrl, prospects |-> <<>>, result |-> <<>>]

\* one list named prospects for all the calls: the list of the first call
SharedProspects(cs, c) == cs[1].prospects

\* prospects is a local of the call
LocalProspects(cs, c) == cs[c].prospects

\* the JSON-LD step of a call, r being what _extract_from_jsonld returns or raises
AfterJsonLd(call, prospects_now, r) ==
  IF r.raised THEN [call EXCEPT !.pc = "raised"]
  ELSE [call EXCEPT !.prospects = Better(r.prospects, prospects_now), !.pc = "headings"]

\* the next statement of call c: the call after it
Advance(cs, c) ==
  CASE cs[c].pc = "regex" ->
         [cs[c] EXCEPT !.prospects = _extract_regex(cs[c].content, cs[c].source_url),
                       !.pc = "cards"]
    [] cs[c].pc = "cards" ->
         IF Len(LocalProspects(cs, c)) < MinProspects /\ Truthy(cs[c].html_content)
         THEN [cs[c] EXCEPT
                 !.prospects = Better(_extract_from_html_cards(cs[c].html_content, cs[c].source_url),
                                      LocalProspects(cs, c)),
                 !.pc = "jsonld"]
         ELSE [cs[c] EXCEPT !.pc = "jsonld"]
    [] cs[c].pc = "jsonld" ->
         IF Len(LocalProspects(cs, c)) < MinProspects /\ Truthy(cs[c].html_content)
         THEN AfterJsonLd(cs[c], LocalProspects(cs, c),
                          _extract_from_jsonld(cs[c].html_content, cs[c].source_url))
         ELSE [cs[c] EXCEPT !.pc = "headings"]
    [] cs[c].pc = "headings" ->
         IF Len(LocalProspects(cs, c)) < MinProspects
         THEN [cs[c] EXCEPT
                 !.prospects = Better(_extract_from_headings(cs[c].content, cs[c].source_url),
                                      LocalProspects(cs, c)),
                 !.pc = "return"]
         ELSE [cs[c] EXCEPT !.pc = "return"]
    [] cs[c].pc = "return" ->
         [cs[c] EXCEPT !.result = LocalProspects(cs, c), !.pc = "done"]
    [] OTHER -> cs[c]

\* a call run from its first statement to its end with no other call around
RunAlone(call) ==
  Advance(<<Advance(<<Advance(<<Advance(<<Advance(<<call>>, 1)>>, 1)>>, 1)>>, 1)>>, 1)

\* extract_prospects_from_content as a function of its arguments: [pc, result] at its end
extract_prospects_from_content(c, url, html) ==
  RunAlone(NewCall([content |-> c, html_content |-> html]))

InitCalls ==
  /\ pc = "calls"
  /\ \E n \in 1..MaxCalls : \E f \in [1..n -> 1..Len(CallPages)] :
       calls = [c \in 1..n |-> NewCall(CallPages[f[c]])]
  /\ raw_prospects = <<>> /\ ExtractIdle /\ DedupIdle /\ MergeIdle /\ ScoreIdle

\* one call runs its next statement
CallStep ==
  /\ pc = "calls"
  /\ \E c \in 1..Len(calls) :
       /\ calls[c].pc \notin {"done", "raised"}
       /\ calls' = [calls EXCEPT ![c] = Advance(calls, c)]
  /\ UNCHANGED <<pc, raw_prospects, extractVars, dedupVars, mergeVars, scoreVars>>

NextCalls == CallStep

SpecCalls == InitCalls /\ [][NextCalls]_vars

(***************************************************************************)
(* Properties of the extraction engine, the deduplicator and the merge     *)
(***************************************************************************)
Returned == pc = "done"

\* the content has fewer than 20 characters after trimming
ShortContent == Len(Strip(content)) < MinContentLen

Fallbacks == {"cards", "jsonld", "headings"}

\* C1: the list extract_prospects_from_content returns holds no two candidates whose
\* names are equal after lowercasing, whichever strategy produced it
C1_LowercasedNamesDiffer ==
  Returned => \A i, j \in 1..Len(result) :
                i < j => StrLower(result[i].name) # StrLower(result[j].name)

\* the Identity Key: the email if the candidate has one, otherwise name + "_" + company
IdentityKey(p) ==
  IF p.email # PyNone /\ p.email # <<>> THEN p.email
  ELSE PyFormat(p.name) \o <<"_">> \o PyFormat(p.company)

\* C2: no two candidates of the merged output have the same Identity Key
C2_MergedKeysDiffer ==
  \A i, j \in 1..Len(unique_prospects) :
    i < j => IdentityKey(unique_prospects[i]) # IdentityKey(unique_prospects[j])

\* a merge that returned at least two candidates after dropping at least one
C2_MergeDroppedDuplicate ==
  pc = "merged" /\ Len(unique_prospects) >= 2 /\ Len(unique_prospects) < Len(all_prospects)

RECURSIVE Concatenated(_, _)
\* the per-page lists from page k on, one after the other
Concatenated(ps, k) == IF k > Len(ps) THEN <<>> ELSE ps[k] \o Concatenated(ps, k + 1)

\* the positions of l that hold the first candidate with their Identity Key
FirstOfKey(l) ==
  {i \in 1..Len(l) : \A j \in 1..(i - 1) : IdentityKey(l[j]) # IdentityKey(l[i])}

\* the subsequence of l at the positions I, in the order of l
SubsequenceAt(l, I) ==
  [k \in 1..Cardinality(I) |-> l[CHOOSE i \in I : Cardinality({j \in I : j < i}) = k - 1]]

\* C3: the merged output is the subsequence of the concatenated per-page lists made of
\* the first candidate of each Identity Key, in the original order
C3_FirstOfEachKeyKept ==
  pc = "merged" =>
    unique_prospects = SubsequenceAt(Concatenated(pages, 1), FirstOfKey(Concatenated(pages, 1)))

\* two pages whose first candidates share an email and differ in name: the first is kept
C3_SameEmailOtherName ==
  /\ pc = "merged"
  /\ pages[1] # <<>> /\ pages[2] # <<>>
  /\ pages[1][1].email = pages[2][1].email /\ Truthy(pages[1][1].email)
  /\ pages[1][1].name # pages[2][1].name
  /\ unique_prospects = <<pages[1][1]>>

\* C4: the deduplication pass run on its own output returns that output unchanged
C4_DedupIdempotent == pc = "deduped" => dedup.final_prospects = first_out

\* a second run after a first run that dropped a candidate and replaced a kept one
C4_SecondRunAfterReplace ==
  /\ pc = "deduped"
  /\ Len(first_out) >= 2 /\ Len(first_out) < Len(raw_prospects)
  /\ first_out[1] # raw_prospects[1]

C6_TitleNeverName ==
  Returned => \A i \in 1..Len(result) : result[i].title # result[i].name

\* C7: every candidate of the regex strategy, before and after its deduplication pass,
\* has a non-empty title or a non-empty company
C7_RegexTitleOrCompany ==
  /\ \A i \in 1..Len(raw_prospects) :
       Truthy(raw_prospects[i].title) \/ Truthy(raw_prospects[i].company)
  /\ \A i \in 1..Len(found.regex) :
       Truthy(found.regex[i].title) \/ Truthy(found.regex[i].company)

\* the regex strategy returned a candidate admitted on its company alone, the
\* deduplication pass having dropped another
C7_RegexCompanyOnly ==
  /\ "regex" \in ran
  /\ Len(found.regex) < Len(raw_prospects)
  /\ \E i \in 1..Len(found.regex) :
       ~Truthy(found.regex[i].title) /\ Truthy(found.regex[i].company)

\* a signal of a candidate is non-null
Signal(p, field) == field \in DOMAIN p /\ p[field] # PyNone

\* C8: every returned candidate has, besides its name, a non-null signal among title,
\* company, email, phone and linkedin_url
C8_NoBareName ==
  Returned => \A i \in 1..Len(result) :
                \E field \in {"title", "company", "email", "phone", "linkedin_url"} :
                  Signal(result[i], field)

\* C9: extract_prospects_from_content raises no exception, whatever the JSON-LD blocks hold
C9_NeverRaises == pc # "raised"

\* C10: the returned list is the output of one strategy that ran, and no strategy that ran
\* produced more candidates
C10_OneStrategyLongest ==
  Returned => \E s \in ran : /\ result = found[s]
                             /\ \A t \in ran : Len(found[t]) <= Len(found[s])

\* a fallback strategy's list returned in place of a non-empty, shorter regex list
C10_FallbackBeatsRegex ==
  /\ Returned
  /\ found.regex # <<>> /\ Len(found.regex) < Len(result)
  /\ \E s \in ran \ {"regex"} : result = found[s]

\* C11: when the regex strategy yields fewer than 2 candidates and HTML is given, the card
\* strategy and the JSON-LD strategy are both run, and the list kept for the next step is
\* at least as long as the list of each of the two
C11_CardsAndJsonLdBothRun ==
  pc = "headings" /\ Len(found.regex) < MinProspects /\ Truthy(html_content) =>
    /\ {"cards", "jsonld"} \subseteq ran
    /\ Len(prospects) >= Len(found.cards)
    /\ Len(prospects) >= Len(found.jsonld)

\* C12: when the JSON-LD strategy yields a candidate from the HTML and the regex strategy
\* yields fewer than 2 candidates and fewer than the JSON-LD strategy, the returned list is
\* the list of the JSON-LD strategy
C12_JsonLdResultReturned ==
  Returned /\ Truthy(html_content) /\ Len(found.regex) < MinProspects =>
    \A r \in {_extract_from_jsonld(html_content, source_url)} :
      ~r.raised /\ Len(r.prospects) >= 1 /\ Len(found.regex) < Len(r.prospects) =>
        result = r.prospects

\* C13: a prospect scored after a field that was absent has been filled in scores at least
\* as much as it did before
C13_FilledFieldNeverLowers ==
  pc = "scored" /\ earlier # <<>> => score >= earlier[Len(earlier)].score

\* a title filled in raised the score by the title's points, and a phone filled in after it
\* left the score as it was
C13_TitleThenPhoneFilled ==
  /\ pc = "scored" /\ Len(earlier) = 2
  /\ earlier[1].prospect.title = PyNone /\ earlier[2].prospect.title = <<"C","E","O">>
  /\ earlier[2].score = earlier[1].score + 25
  /\ earlier[2].prospect.phone = PyNone /\ given.phone # PyNone
  /\ score = earlier[2].score

\* a field of a prospect is present
Present(p, field) == p[field] # PyNone /\ p[field] # <<>>

\* the senior-role keywords, lowercased
SeniorRoles ==
  {<<"c","e","o">>, <<"c","t","o">>, <<"v","p">>, <<"d","i","r","e","c","t","o","r">>,
   <<"m","a","n","a","g","e","r">>, <<"h","e","a","d">>, <<"l","e","a","d">>,
   <<"f","o","u","n","d","e","r">>, <<"p","r","e","s","i","d","e","n","t">>,
   <<"c","f","o">>, <<"c","o","o">>}

\* the points of the scoring table that a prospect earns; a well-formed name is a name of
\* at least two tokens
Points(p) ==
  [name |-> IF Present(p, "name") /\ TokenCount(p.name) >= 2 THEN 25 ELSE 0,
   two_tokens |-> IF Present(p, "name") /\ TokenCount(p.name) = 2 THEN 5 ELSE 0,
   title |-> IF Present(p, "title") THEN 20 ELSE 0,
   senior |-> IF Present(p, "title") /\ \E kw \in SeniorRoles : Contains(StrLower(p.title), kw)
              THEN 5 ELSE 0,
   company |-> IF Present(p, "company") THEN 15 ELSE 0,
   named_company |-> IF Present(p, "company")
                        /\ p.company # <<"U","n","k","n","o","w","n"," ","C","o","m","p","a","n","y">>
                     THEN 5 ELSE 0,
   email |-> IF Present(p, "email") THEN 15 ELSE 0,
   linkedin_url |-> IF Present(p, "linkedin_url") THEN 10 ELSE 0]

\* C14: the score is the sum of the points of the scoring table, and lies in 0..100
C14_ScoreIsSumOfPoints ==
  pc = "scored" =>
    /\ \E pt \in {Points(given)} :
         score = pt.name + pt.two_tokens + pt.title + pt.senior + pt.company
                   + pt.named_company + pt.email + pt.linkedin_url
    /\ score \in 0..100

\* a prospect that scored 75 scores 90 with its email filled in and 100 with its profile
\* URL filled in as well
C14_FullScoreReached ==
  /\ pc = "scored" /\ score = 100
  /\ Len(earlier) = 2 /\ earlier[1].score = 75 /\ earlier[2].score = 90

\* C15: the markdown "Jane Doe\nVP of Engineering\nAcme Corp\njane@acme.com" without HTML
\* returns one candidate, with that name, title, company and email and a confidence of
\* about 70
C15_JaneDoeExample ==
  Returned /\ content = Md_Jane /\ ~Truthy(html_content) =>
    /\ Len(result) = 1
    /\ result[1].name = <<"J","a","n","e"," ","D","o","e">>
    /\ result[1].title = <<"V","P"," ","o","f"," ","E","n","g","i","n","e","e","r","i","n","g">>
    /\ result[1].company = <<"A","c","m","e"," ","C","o","r","p">>
    /\ result[1].email = <<"j","a","n","e","@","a","c","m","e",".","c","o","m">>
    /\ result[1].confidence \in 65..75

\* the fields of a Candidate
CandidateFields ==
  {"name", "title", "company", "email", "phone", "linkedin_url", "source", "confidence"}

\* C16: every returned candidate is a record with the eight fields of a Candidate, its name
\* and its source non-null
C16_EightFields ==
  Returned => \A i \in 1..Len(result) :
                /\ DOMAIN result[i] = CandidateFields
                /\ result[i].name # PyNone
                /\ result[i].source # PyNone

\* C17: the name of every returned candidate is made of 2 or 3 tokens, each starting with a
\* capital letter
C17_NameOfCapitalizedTokens ==
  Returned => \A i \in 1..Len(result) :
                \A words \in {SplitWs(result[i].name)} :
                  /\ Len(words) \in {2, 3}
                  /\ \A w \in 1..Len(words) : words[w][1] \in Upper

\* a name the deny-list rejects: a deny-listed phrase, or a name with a deny-listed token
DenyListed(name) ==
  \/ name \in skip_names
  \/ \E words \in {SplitWs(name)} : \E w \in 1..Len(words) : words[w] \in skip_names

\* the lines of the content are all "Contact Us" or "Privacy Policy"
OnlyNavLines ==
  /\ content # <<>>
  /\ \A lines \in {SplitOn(content, "\n")} : \A k \in 1..Len(lines) :
       lines[k] \in {<<"C","o","n","t","a","c","t"," ","U","s">>,
                     <<"P","r","i","v","a","c","y"," ","P","o","l","i","c","y">>}

WindowText(norm, anchors, i) ==
  Slice(norm, anchors[i].s,
        Min(IF i < Len(anchors) THEN anchors[i + 1].s ELSE Len(norm), anchors[i].s + WindowChars))

\* the contact details of p all stand in the window of an anchor that bears p's name
ContactsInWindow(p, norm, anchors) ==
  \E i \in 1..Len(anchors) :
    /\ Strip(Group(norm, anchors[i])) = p.name
    /\ \A field \in {"email", "phone", "linkedin_url"} \cap DOMAIN p :
         p[field] # PyNone => Contains(WindowText(norm, anchors, i), p[field])

AllEnded == calls # <<>> /\ \A c \in 1..Len(calls) : calls[c].pc \in {"done", "raised"}

NameLower(p) == Strip(StrLower(p.name))
TitleLower(p) == Strip(StrLower(IF Truthy(p.title) THEN p.title ELSE <<>>))

\* the positions of the kept list whose candidate has the lowercased title t
HoldersOf(kept, t) == {k \in 1..Len(kept) : TitleLower(kept[k]) = t}

\* the name contains a title keyword, case-insensitively
HasTitleKeyword(name) ==
  \E k \in 1..Len(title_keywords) : Contains(StrLower(name), StrLower(title_keywords[k]))

\* an iteration of the loop is taken on the candidate DedupInput[di]
LoopIteration == pc = "dedup" /\ di <= Len(DedupInput) /\ di' = di + 1

\* C21: an iteration on a candidate whose name is not in the kept list and whose
\* lowercased title a kept candidate holds puts the candidate in that kept candidate's
\* place exactly when the kept name contains a title keyword and the new name does not,
\* and otherwise leaves the kept list as it was
C21_ReplacedIffKeptLooksLikeTitle ==
  [][LoopIteration =>
       LET p == DedupInput[di]
           kept == dedup.final_prospects
           holders == HoldersOf(kept, TitleLower(p))
       IN (NameLower(p) \notin {NameLower(kept[k]) : k \in 1..Len(kept)}
           /\ TitleLower(p) # <<>> /\ holders # {})
          => \A k \in holders :
               dedup'.final_prospects =
                 IF HasTitleKeyword(kept[k].name) /\ ~HasTitleKeyword(p.name)
                 THEN [kept EXCEPT ![k] = p] ELSE kept]_vars

\* the loop has replaced a kept candidate in place and then discarded a third candidate of
\* the same title
C21_ReplacedThenDiscarded ==
  /\ pc = "dedup" /\ pass = 1 /\ di = 4
  /\ TitleLower(raw_prospects[1]) = TitleLower(raw_prospects[2])
  /\ TitleLower(raw_prospects[2]) = TitleLower(raw_prospects[3])
  /\ Cardinality({NameLower(raw_prospects[k]) : k \in 1..3}) = 3
  /\ dedup.final_prospects = <<raw_prospects[2]>>

\* the lowercased names of a list of candidates
NamesOf(ps) == {NameLower(ps[k]) : k \in 1..Len(ps)}

\* C22 as claimed: an iteration on a candidate whose lowercased name an earlier candidate
\* of the raw list had leaves the kept list as it was
C22_LaterOccurrenceNeverKept ==
  [][LoopIteration /\ pass = 1 =>
       ((\E j \in 1..(di - 1) : NameLower(raw_prospects[j]) = NameLower(raw_prospects[di]))
        => dedup'.final_prospects = dedup.final_prospects)]_vars

\* C22 amended: an iteration on a candidate whose lowercased name a kept candidate has
\* leaves the kept list as it was, so no two kept candidates share a lowercased name; a
\* candidate whose name no kept candidate has and whose title no kept candidate holds is
\* appended, also when an earlier candidate of its name was discarded or replaced
C22_KeptNameNeverKeptAgain ==
  [][LoopIteration =>
       LET p == DedupInput[di]
           kept == dedup.final_prospects
       IN /\ NameLower(p) \in NamesOf(kept) => dedup'.final_prospects = kept
          /\ (NameLower(p) \notin NamesOf(kept)
              /\ (TitleLower(p) = <<>> \/ HoldersOf(kept, TitleLower(p)) = {}))
             => dedup'.final_prospects = Append(kept, p)
          /\ Cardinality(NamesOf(dedup'.final_prospects)) = Len(dedup'.final_prospects)]_vars

\* the second candidate was discarded on a title collision and the third, of the same
\* name and another title, is kept
C22_SecondOccurrenceKept ==
  /\ pc = "dedup" /\ pass = 1 /\ di = 4
  /\ NameLower(raw_prospects[2]) = NameLower(raw_prospects[3])
  /\ NameLower(raw_prospects[1]) # NameLower(raw_prospects[2])
  /\ TitleLower(raw_prospects[1]) = TitleLower(raw_prospects[2])
  /\ raw_prospects[2] # raw_prospects[3]
  /\ dedup.final_prospects = <<raw_prospects[1], raw_prospects[3]>>

\* the strategies in the order the orchestrator consults them
StrategyOrder == <<"regex", "cards", "jsonld", "headings">>

\* every list found by a strategy consulted before the k-th has fewer than 2 candidates
SparseBefore(k) == \A j \in 1..(k - 1) : Len(found[StrategyOrder[j]]) < 2

\* C23: the regex strategy is run first; a later strategy has been run only if every list
\* found before it had fewer than 2 candidates; a regex list of 2 or more candidates is
\* returned as it is, no other strategy having run; the returned list is as long as the
\* longest list found
C23_EscalatesOnlyWhileSparse ==
  /\ pc # "regex" => "regex" \in ran
  /\ ran # {} => "regex" \in ran
  /\ \A k \in 2..4 : StrategyOrder[k] \in ran => SparseBefore(k)
  /\ Returned /\ Len(found.regex) >= 2 => result = found.regex /\ ran = {"regex"}
  /\ Returned => /\ \E s \in ran : result = found[s]
                 /\ \A s \in ran : Len(found[s]) <= Len(result)

\* a call with HTML whose regex list has 2 candidates has returned it without running
\* another strategy
C23_RegexListReturnedDespiteHtml ==
  /\ pc = "done" /\ Truthy(html_content)
  /\ Len(found.regex) >= 2 /\ ran = {"regex"} /\ result = found.regex

\* C24: no candidate found by the regex, card or heading strategy has a name that the
\* person-name detector rejects
C24_NoRejectedName ==
  \A s \in {"regex", "cards", "headings"} :
    \A i \in 1..Len(found[s]) : is_real_person_name(found[s][i].name)

\* the address is role-based: it contains noreply, no-reply, support, info@ or hello@
IsRoleAddress(e) == \E k \in 1..Len(role_markers) : Contains(StrLower(e), role_markers[k])

\* the email the claim gives a candidate whose searched text is text: the first address
\* that is not role-based, the first address when all are, none without an address
ClaimedEmail(text) ==
  LET emails == FindAll(email_pattern, text)
      personal == {k \in 1..Len(emails) : ~IsRoleAddress(emails[k])}
  IN IF emails = <<>> THEN PyNone
     ELSE IF personal # {} THEN emails[MinOf(personal)] ELSE emails[1]

\* the texts searched for the candidates named name: by the regex strategy the windows of
\* the anchors, by the heading strategy the 400 characters after the headings, by the card
\* strategy the texts of the blocks
RegexTexts(name) ==
  LET norm == Normalize(content)
      anchors == PersonMatches(norm)
  IN {WindowText(norm, anchors, i) :
        i \in {j \in 1..Len(anchors) : Strip(Group(norm, anchors[j])) = name}}
HeadingTexts(name) ==
  LET ms == FindIter(heading_pre, name_pattern_grp, heading_post, content, 0)
  IN {Slice(content, ms[i].e, ms[i].e + HeadingContext) :
        i \in {j \in 1..Len(ms) : Strip(Group(content, ms[j])) = name}}
CardTexts(name) ==
  LET text_blocks == TextBlocks(Unstyle(Unscript(html_content)))
  IN {text \in {BlockText(text_blocks[b]) : b \in 1..Len(text_blocks)} : Contains(text, name)}

\* C25: the email of every candidate of the regex, card and heading strategies is the first
\* address of its searched text that is not role-based, and a role-based address only when
\* every address of that text is role-based
C25_FirstPersonalEmail ==
  /\ \A k \in 1..Len(raw_prospects) :
       \E text \in RegexTexts(raw_prospects[k].name) : raw_prospects[k].email = ClaimedEmail(text)
  /\ \A k \in 1..Len(found.cards) :
       \E text \in CardTexts(found.cards[k].name) : found.cards[k].email = ClaimedEmail(text)
  /\ \A k \in 1..Len(found.headings) :
       \E text \in HeadingTexts(found.headings[k].name) :
         found.headings[k].email = ClaimedEmail(text)

\* "personal" for a linkedin.com/in/ URL, "company" for a linkedin.com/company/ URL
KindOf(url) ==
  IF ~IsStr(url) THEN "none"
  ELSE IF Contains(StrLower(url), <<"l","i","n","k","e","d","i","n",".","c","o","m","/","i","n","/">>)
  THEN "personal"
  ELSE IF Contains(StrLower(url),
                   <<"l","i","n","k","e","d","i","n",".","c","o","m","/","c","o","m","p","a","n","y","/">>)
  THEN "company"
  ELSE "other"

\* the kind of profile URL the claim gives a candidate whose searched texts are texts:
\* personal when a personal URL stands in them, else company when a company URL does
ClaimedKind(texts) ==
  IF \E t \in texts : FindAll(linkedin_pattern, t) # <<>> THEN "personal"
  ELSE IF \E t \in texts : FindAll(linkedin_company_pattern, t) # <<>> THEN "company"
  ELSE "none"

\* the blocks the card strategy searches for the candidates named name
CardBlocksOf(name) ==
  LET text_blocks == TextBlocks(Unstyle(Unscript(html_content)))
  IN {text_blocks[b] : b \in {c \in 1..Len(text_blocks) : Contains(BlockText(text_blocks[c]), name)}}

\* the strings of the sameAs list of a person
LinksOf(person) ==
  LET same == JGet(person, "sameAs")
  IN IF same.t = "list" THEN {same.v[k].v : k \in {j \in 1..Len(same.v) : same.v[j].t = "str"}}
     ELSE {}

\* the item is a Person named as the candidate c, and c has the kind of profile URL the
\* claim gives for the item's sameAs list
PersonBears(item, c) ==
  /\ item.t = "dict" /\ IsPerson(item)
  /\ PersonName(item).t = "str" /\ PersonName(item).v = c.name
  /\ KindOf(c.linkedin_url) = ClaimedKind(LinksOf(item))

\* some Person item of an item list, top-level or in an @graph list, bears c's profile URL
ItemsBear(items, c) ==
  \E k \in 1..Len(items) :
    \/ PersonBears(items[k], c)
    \/ /\ items[k].t = "dict" /\ ~IsPerson(items[k]) /\ JGet(items[k], "@graph").t = "list"
       /\ \E g \in 1..Len(JGet(items[k], "@graph").v) :
            PersonBears(JGet(items[k], "@graph").v[g], c)

\* some Person item of the JSON-LD blocks of html_content bears c's profile URL
SomePersonBears(c) ==
  LET blocks == LdBlocks(html_content)
  IN \E b \in 1..Len(blocks) :
       JsonLoads(blocks[b]).ok /\ ItemsBear(ItemsOf(JsonLoads(blocks[b])), c)

\* C26: the linkedin_url of every candidate is a personal profile URL when the text or
\* link list searched for it holds one, whatever stands before it, and a company profile
\* URL when it holds company URLs only
C26_PersonalProfilePreferred ==
  /\ \A k \in 1..Len(raw_prospects) :
       \E text \in RegexTexts(raw_prospects[k].name) :
         KindOf(raw_prospects[k].linkedin_url) = ClaimedKind({text})
  /\ \A k \in 1..Len(found.cards) :
       \E block \in CardBlocksOf(found.cards[k].name) :
         KindOf(found.cards[k].linkedin_url) = ClaimedKind({block})
  /\ \A k \in 1..Len(found.headings) :
       \E text \in HeadingTexts(found.headings[k].name) :
         KindOf(found.headings[k].linkedin_url) = ClaimedKind({text})
  /\ \A k \in 1..Len(found.jsonld) : SomePersonBears(found.jsonld[k])

\* the non-empty lowercased titles of a list of candidates
TitlesOf(ps) == {TitleLower(ps[k]) : k \in 1..Len(ps)} \ {<<>>}

\* the first run of the loop has gone through the raw list
FirstPassOver == pc = "dedup" /\ pass = 1 /\ di > Len(raw_prospects)

\* C27 as claimed: the output holds no two candidates of one non-empty lowercased title, and
\* exactly one candidate of every title that several raw candidates share
C27_ExactlyOnePerSharedTitle ==
  FirstPassOver =>
    /\ \A t \in TitlesOf(dedup.final_prospects) :
         Cardinality(HoldersOf(dedup.final_prospects, t)) = 1
    /\ \A t \in TitlesOf(raw_prospects) :
         Cardinality(HoldersOf(raw_prospects, t)) >= 2
         => Cardinality(HoldersOf(dedup.final_prospects, t)) = 1

\* C27 amended: the kept list never holds two candidates of one non-empty lowercased
\* title; a title once held stays held; and an iteration on a titled candidate whose name
\* no kept candidate has leaves exactly one kept candidate of that title, while one on a
\* candidate whose name a kept candidate has adds no title
C27_AtMostOnePerTitle ==
  [][LoopIteration =>
       LET p == DedupInput[di]
           kept == dedup.final_prospects
           after == dedup'.final_prospects
       IN /\ \A t \in TitlesOf(after) : Cardinality(HoldersOf(after, t)) = 1
          /\ TitlesOf(kept) \subseteq TitlesOf(after)
          /\ IF NameLower(p) \in NamesOf(kept) THEN TitlesOf(after) = TitlesOf(kept)
             ELSE TitlesOf(after) = TitlesOf(kept) \cup ({TitleLower(p)} \ {<<>>})]_vars

\* two different people, neither with a title-like name, share a title: the first is kept
\* and the second discarded
C27_TwoPeopleOneTitle ==
  /\ pc = "dedup" /\ pass = 1 /\ di = 3
  /\ NameLower(raw_prospects[1]) # NameLower(raw_prospects[2])
  /\ TitleLower(raw_prospects[1]) = TitleLower(raw_prospects[2])
  /\ ~HasTitleKeyword(raw_prospects[1].name) /\ ~HasTitleKeyword(raw_prospects[2].name)
  /\ dedup.final_prospects = <<raw_prospects[1]>>

\* how many times the text t stands in s
Occurrences(s, t) == Cardinality({i \in 0..Len(s) : StartsAt(s, t, i)})

\* C28: the anchors stand at increasing positions and the window of each ends at or before
\* the position of every later anchor, so that no more raw candidates bear an email or a
\* profile URL than the page has occurrences of it
C28_WindowsNeverOverlap ==
  pc = "cards" =>
    \A norm \in {Normalize(content)} : \A anchors \in {PersonMatches(norm)} :
      /\ \A i \in 1..Len(anchors) : \A j \in (i + 1)..Len(anchors) :
           /\ anchors[i].s < anchors[j].s
           /\ ContextEnd(norm, anchors, i) <= anchors[j].s
      /\ \A field \in {"email", "linkedin_url"} :
           \A k \in 1..Len(raw_prospects) :
             raw_prospects[k][field] # PyNone =>
               Cardinality({l \in 1..Len(raw_prospects) :
                              raw_prospects[l][field] = raw_prospects[k][field]})
                 <= Occurrences(norm, raw_prospects[k][field])

\* the regex strategy has run on a page with three anchors less than 600 characters apart,
\* an email standing after the last one: only the last raw candidate bears it
C28_EmailAfterLastAnchor ==
  /\ pc = "cards" /\ Len(content) < WindowChars
  /\ Len(raw_prospects) = 3
  /\ raw_prospects[1].email = PyNone /\ raw_prospects[2].email = PyNone
  /\ raw_prospects[3].email # PyNone

\* the fields of a candidate other than its score
OwnFields(p) == [k \in DOMAIN p \ {"confidence"} |-> p[k]]

\* C29: every returned candidate carries the score that calculate_extraction_confidence
\* gives for its own returned fields
C29_ConfidenceOfReturnedFields ==
  Returned =>
    \A i \in 1..Len(result) :
      result[i].confidence = calculate_extraction_confidence(OwnFields(result[i]))

\* the returned list is the regex list after the deduplication loop put the second raw
\* candidate in the place of the first, of the same title: it carries its own score
C29_ReturnedAfterReplacement ==
  /\ Returned /\ Len(raw_prospects) = 2
  /\ NameLower(raw_prospects[1]) # NameLower(raw_prospects[2])
  /\ TitleLower(raw_prospects[1]) # <<>>
  /\ TitleLower(raw_prospects[1]) = TitleLower(raw_prospects[2])
  /\ result = <<raw_prospects[2]>> /\ result[1].confidence > 0

\* C30: after every iteration of the loop the seen-name set is the set of the lowercased
\* names of the kept list, and every entry of the seen-title map points inside the kept
\* list, at a candidate of that lowercased title
C30_SeenSetsMatchKept ==
  /\ dedup.seen_names_lower = NamesOf(dedup.final_prospects)
  /\ \A k \in 1..Len(dedup.seen_titles_lower) :
       /\ dedup.seen_titles_lower[k].idx \in 0..(Len(dedup.final_prospects) - 1)
       /\ TitleLower(dedup.final_prospects[dedup.seen_titles_lower[k].idx + 1])
            = dedup.seen_titles_lower[k].title

\* the loop has replaced the first kept candidate by the second raw candidate and kept a
\* third: the replaced name has left the seen-name set and the title entry still points
\* at the first place
C30_ReplacedNameLeftSeenSet ==
  /\ pc = "dedup" /\ pass = 1 /\ di = 4
  /\ dedup.final_prospects = <<raw_prospects[2], raw_prospects[3]>>
  /\ NameLower(raw_prospects[1]) \notin dedup.seen_names_lower
  /\ Cardinality(dedup.seen_names_lower) = 2
  /\ \E k \in 1..Len(dedup.seen_titles_lower) :
       /\ dedup.seen_titles_lower[k].idx = 0
       /\ dedup.seen_titles_lower[k].title = TitleLower(raw_prospects[1])

====
